---------------------------- MODULE Spec2Model ----------------------------
(***************************************************************************)
(* A model of the resource / collection data-binding engine of             *)
(* sequoia-js-client-sdk: ResourceCollection (the Entity Set),             *)
(* ResourcefulEndpoint (the Collection Endpoint), Resource (the Entity)    *)
(* and the Query criteria they exchange.                                   *)
(*                                                                         *)
(* JavaScript values are modelled as follows.                              *)
(*   - an object is a function from its own property names to values;      *)
(*     Get(o, k) reads a property and yields Undef when it is absent;      *)
(*   - undefined and null are the one value Undef; Truthy(v) is the        *)
(*     JavaScript truthiness of a string-valued property;                  *)
(*   - an array is a sequence; a string built by join(',') is kept as the  *)
(*     sequence of its parts, the empty sequence being the empty string;   *)
(*   - a promise is a record with a state (pending, resolved, rejected);   *)
(*     each callback that the event loop runs is one action.               *)
(***************************************************************************)
EXTENDS Integers, Sequences, FiniteSets, TLC

VARIABLES
    resourceful,  \* the descriptor held by the ResourcefulEndpoint
    set,          \* the ResourceCollection under test
    op,           \* the Entity Set operation in progress
    exploded,     \* the value returned by the last explode()
    calls,        \* the endpoint store / destroy calls issued so far
    promise,      \* the promise returned by save() / destroy() / browse() / all()
    userCriteria, \* the criteria object that the caller passes to browse() / all()
    pages,        \* the pages of the listing that the service holds
    acc,          \* the accumulator `collection` of all(): <<>> for null
    result,       \* the Entity Set that the promise resolved with, if any
    directives,   \* the directive calls made on the Query so far, in call order
    entity,       \* the Resource under test: <<>> when none was created
    registry,     \* the Registry: tenant, services, descriptor cache, cache flag
    session,      \* the Session: token, tenants, access, currentTenantName
    headers,      \* transport.defaults.headers, shared by Session and endpoints
    heap          \* the Resources of an entity graph, by identity

pagingVars == <<userCriteria, pages, acc, result>>

entityVars == <<directives, entity>>

clientVars == <<registry, session, headers, heap>>

\* the Registry, the Session, the transport headers and the entity graph of
\* a specification that constructs none of them
NoClient ==
    /\ registry = <<>>
    /\ session = <<>>
    /\ headers = <<>>
    /\ heap = <<>>


vars == <<resourceful, set, op, exploded, calls, promise, userCriteria, pages,
         acc, result, directives, entity,
         registry, session, headers, heap>>

----------------------------------------------------------------------------
(* Bounds of the model *)

MaxItems == 5      \* entities in a payload
MaxTotal == 3      \* largest meta.totalCount a payload carries
MaxLimit == 2      \* largest operations.storeBatch.limit of the descriptor
MaxSize == 2       \* largest explicit batch size passed to explode / save
MaxContents == 2   \* entities in a payload given to setData
MaxLinked == 2     \* items in a linked array of a payload
MaxPages == 3      \* pages of a listing
MaxPerPage == 2    \* entities on a page of a listing
MaxDirectives == 3 \* directive calls made on a Query
MaxFrags == 3      \* fragments of a query that the caller may still extend
MaxPending == 2    \* entities waiting in indirectlyLinkedResources
MaxAssignments == 1 \* field assignments and links made on an Entity before it is used
MaxValidations == 2
MaxTargets == 2
MaxFinds == 2
MaxEntities == 3
MaxGraphLinks == 3
MaxBrowses == 2
MaxSaves == 2
MaxRequests == 4 \* validate() calls made on an Entity

(* Program constants *)

DefaultBatchSize == 100

\* the enum ValidationError
NONE == 0
NO_FIELD == 1
REQUIRED_FIELD == 2
NOT_ALLOWED == 3
INVALID_VALUE == 4
INVALID_MAP == 5

----------------------------------------------------------------------------
(* JavaScript values *)

Undef == "undefined"

Null == "null"

Truthy(v) == v # Undef /\ v # "" /\ v # Null

Get(o, k) == IF k \in DOMAIN o THEN o[k] ELSE Undef

Min(a, b) == IF a <= b THEN a ELSE b

\* Math.ceil(a / b) for a >= 0, b >= 1
Ceil(a, b) == (a + b - 1) \div b

\* Array.prototype.slice(from, to) with 0-based, end-exclusive indices
Slice(s, from, to) == SubSeq(s, Min(from, Len(s)) + 1, Min(to, Len(s)))

\* Array.prototype.concat over an array of arrays
RECURSIVE Flatten(_)
Flatten(ss) == IF ss = <<>> THEN <<>> ELSE Head(ss) \o Flatten(Tail(ss))

Range(s) == { s[i] : i \in DOMAIN s }

RefName(i) == "t:" \o ToString(i)


----------------------------------------------------------------------------
(* The descriptor of the `contents` resourceful endpoint.  `assets` is a    *)
(* plain indirect relationship (its items point back with contentRef),      *)
(* `customers` a relationship whose items carry no back reference,          *)
(* `relatedMaterials.assets` a relationship through `relatedMaterials`.     *)

NoThrough == [through |-> Undef, filterName |-> Undef, fieldNamePath |-> Undef]

Relationships ==
    ("assets" :> [NoThrough EXCEPT !.filterName = "withContentRef"])
 @@ ("customers" :> NoThrough)
 @@ ("relatedMaterials" :> [NoThrough EXCEPT !.fieldNamePath = "relatedMaterialRefs"])
 @@ ("relatedMaterials.assets" :>
        [through |-> "relatedMaterials", filterName |-> "withMaterialRef",
         fieldNamePath |-> Undef])

Filters ==
    [withContentRef |-> [fieldNamePath |-> "contentRef"],
     withMaterialRef |-> [fieldNamePath |-> "materialRef"]]

Fields ==
    [ref |-> [default |-> Undef],
     title |-> [default |-> Undef],
     relatedMaterialRefs |-> [default |-> <<>>]]

\* limit = 0 stands for a descriptor without operations.storeBatch.limit
Descriptor(limit) ==
    [pluralName |-> "contents", singularName |-> "content",
     hyphenatedPluralName |-> "contents",
     location |-> "http://localhost/metadata", tenant |-> "test",
     relationships |-> Relationships, filters |-> Filters, fields |-> Fields,
     operations |-> [storeBatch |-> [limit |-> limit]]]

\* ResourcefulEndpoint.batchSize
BatchSize ==
    IF resourceful.operations.storeBatch.limit # 0
    THEN resourceful.operations.storeBatch.limit
    ELSE DefaultBatchSize

----------------------------------------------------------------------------
(* Resource (the Entity): the function of its own data properties.          *)

\* a toJSON that returns the own properties as they are
ToJSONOfOwnProperties(r) == r

\* Resource.toJSON of a descriptor-bound Resource
ToJSON(r) ==
    [key \in DOMAIN resourceful.fields |->
        IF key \in DOMAIN r THEN r[key] ELSE resourceful.fields[key].default]

\* the constant NO_RESOURCEFUL_ENDPOINT_ERROR of the Resource module
NoResourcefulEndpointError ==
    [message |-> "No resourceful endpoint tied to this resource."]

\* new Resource(rawData, resourcefulEndpoint): `own` are the properties that
\* Object.assign copies from rawData and later assignments add, `bound`
\* tells whether resourcefulEndpoint is set
Resource(rawData, bound) ==
    [own |-> rawData, rawData |-> rawData, bound |-> bound,
     indirectlyLinkedResources |-> <<>>, errors |-> <<>>]

\* Resource.getResourceFields() is not null
HasResourceFields(r) == r.bound

\* Resource.toJSON
ResourceToJSON(r) == IF HasResourceFields(r) THEN ToJSON(r.own) ELSE r.rawData

\* the strings of the model that `new RegExp(pattern).test(value)` accepts
Matches ==
    [durationPattern |-> {"PT75M"},
     typePattern |-> {"movie"},
     keysPattern |-> {"BBFC", "TEST"}]

RegExpTest(pattern, value) == value \in Matches[pattern]

\* `fieldNamePath.endsWith('Refs')` for the field names of the model
EndsWithRefs(fieldNamePath) ==
    fieldNamePath \in {"categoryRefs", "relatedMaterialRefs", "memberRefs",
                       "assetRefs", "playlistRefs", "contentRefs"}

\* the field is declared as a Map: typeInfo has `keys`
IsMapField(currentField) ==
    /\ "typeInfo" \in DOMAIN currentField
    /\ "keys" \in DOMAIN currentField.typeInfo

\* `this[field] === undefined || this[field] === null`; the value of a Map
\* field is the sequence of its entries and that of a ...Refs field an array,
\* which are neither
IsUnset(r, field, currentField) ==
    \/ field \notin DOMAIN r.own
    \/ /\ ~IsMapField(currentField)
       /\ ~EndsWithRefs(field)
       /\ r.own[field] \in {Undef, Null}

\* the message part of an entry of a Map, <<>> when it passes; `threw` marks
\* the TypeError of `typeInfo.values[key].values` with an undeclared key
ValidateEntry(field, typeInfo, entry) ==
    IF ~RegExpTest(typeInfo.keys.pattern, entry.key)
    THEN <<[key |-> entry.key, does |-> "not match"]>>
    ELSE IF "values" \in DOMAIN typeInfo
    THEN IF entry.key \notin DOMAIN typeInfo.values
         THEN <<[key |-> entry.key, does |-> "threw"]>>
         ELSE IF entry.value \notin Range(typeInfo.values[entry.key].values)
         THEN <<[key |-> entry.key, does |-> "is not one of"]>>
         ELSE <<>>
    ELSE <<>>

\* the object that validateField returns
Validation(code, field, message, currentField) ==
    [threw |-> FALSE, code |-> code, field |-> field, message |-> message,
     typeInfo |-> IF "typeInfo" \in DOMAIN currentField
                  THEN <<currentField.typeInfo>> ELSE <<>>,
     valid |-> code = NONE]

\* validateField raised a TypeError
ValidationThrew(field) ==
    [threw |-> TRUE, code |-> NONE, field |-> field, message |-> <<>>,
     typeInfo |-> <<>>, valid |-> FALSE]

\* Resource.validateField(field); the message is the sequence of its parts
ValidateField(r, field) ==
    IF ~HasResourceFields(r) THEN ValidationThrew(field)
    ELSE IF field \notin DOMAIN resourceful.fields
    THEN Validation(NO_FIELD, field, <<"does not exist">>, <<>>)
    ELSE LET currentField == resourceful.fields[field]
             done(code, message) == Validation(code, field, message, currentField)
         IN  IF IsUnset(r, field, currentField)
             THEN IF "required" \in DOMAIN currentField /\ currentField.required
                  THEN done(REQUIRED_FIELD, <<"is required">>)
                  ELSE done(NONE, <<>>)
             ELSE IF "readOnly" \in DOMAIN currentField /\ currentField.readOnly = TRUE
             THEN done(NONE, <<>>)
             ELSE IF "allowedValueMappings" \in DOMAIN currentField
             THEN IF r.own[field] \notin Range(currentField.allowedValueMappings)
                  THEN done(NOT_ALLOWED, <<"is not one of">>)
                  ELSE done(NONE, <<>>)
             ELSE IF "typeInfo" \in DOMAIN currentField
             THEN LET typeInfo == currentField.typeInfo
                  IN  IF "pattern" \in DOMAIN typeInfo
                      THEN IF ~RegExpTest(typeInfo.pattern, r.own[field])
                           THEN done(INVALID_VALUE, <<"does not match">>)
                           ELSE done(NONE, <<>>)
                      ELSE IF "keys" \in DOMAIN typeInfo
                      THEN LET parts ==
                                   Flatten([i \in DOMAIN r.own[field] |->
                                       ValidateEntry(field, typeInfo, r.own[field][i])])
                           IN  IF \E i \in DOMAIN parts : parts[i].does = "threw"
                               THEN ValidationThrew(field)
                               ELSE IF parts # <<>> THEN done(INVALID_MAP, parts)
                               ELSE done(NONE, <<>>)
                      ELSE done(NONE, <<>>)
             ELSE done(NONE, <<>>)

\* Object.keys(o) for the objects of the model, in insertion order
KeyOrder ==
    <<"ref", "owner", "active", "title", "type", "duration", "createdAt",
      "ratings", "parentRef", "categoryRefs", "relatedMaterialRefs">>

ObjectKeys(o) == SelectSeq(KeyOrder, LAMBDA k : k \in DOMAIN o)

\* `obj[key] = value`
SetProp(obj, key, value) ==
    [k \in (DOMAIN obj) \cup {key} |-> IF k = key THEN value ELSE obj[k]]

\* a version of linkRefToResource that pushes the ref without looking for it
LinkRefToResourceAlwaysPushes(ref, relationship, own) ==
    LET fieldNamePath == relationship.fieldNamePath
    IN  IF EndsWithRefs(fieldNamePath)
        THEN IF fieldNamePath \notin DOMAIN own
             THEN SetProp(own, fieldNamePath, <<ref>>)
             ELSE SetProp(own, fieldNamePath, Append(own[fieldNamePath], ref))
        ELSE SetProp(own, fieldNamePath, ref)

\* Resource.linkRefToResource(ref, relationship, resource): the properties
\* of `resource` afterwards; a ...Refs property is an array or absent
LinkRefToResource(ref, relationship, own) ==
    LET fieldNamePath == relationship.fieldNamePath
    IN  IF EndsWithRefs(fieldNamePath)
        THEN IF fieldNamePath \notin DOMAIN own
             THEN SetProp(own, fieldNamePath, <<ref>>)
             ELSE IF ref \notin Range(own[fieldNamePath])
             THEN SetProp(own, fieldNamePath, Append(own[fieldNamePath], ref))
             ELSE own
        ELSE SetProp(own, fieldNamePath, ref)

\* Object.entries(relationships): the keys in insertion order
RelationshipOrder ==
    <<"parent", "members", "categories", "assets", "playlists", "contents",
      "series", "children">>

\* the entry that `find` of ResourcefulEndpoint.relationshipFor returns: the
\* key of the first relationship whose resourceType is relationshipName,
\* <<>> when there is none
RelationshipKey(relationships, relationshipName) ==
    LET names == SelectSeq(RelationshipOrder,
                     LAMBDA name : /\ name \in DOMAIN relationships
                                   /\ relationships[name].resourceType
                                          = relationshipName)
    IN  IF names = <<>> THEN <<>> ELSE <<names[1]>>

\* ResourcefulEndpoint.relationshipFor(relationshipName) over the
\* relationships of a descriptor, <<>> when it throws
RelationshipFor(relationships, relationshipName) ==
    LET key == RelationshipKey(relationships, relationshipName)
    IN  IF key = <<>> THEN <<>> ELSE <<relationships[key[1]]>>

\* what a call of link() can throw
NoError == "none"
LookupError == "Error: Relationship does not exist"
UnboundError == "TypeError"

\* Resource.getRelationshipFor(as || resource) of a Resource whose endpoint
\* has these relationships, `other` being the bound flag and the plural name
\* of the endpoint of `resource`: the error thrown and the key of the
\* relationship returned
GetRelationshipFor(bound, relationships, as, other) ==
    IF ~bound THEN [error |-> UnboundError, key |-> Undef]
    ELSE IF Truthy(as)
    THEN IF as \in DOMAIN relationships
         THEN [error |-> NoError, key |-> as]
         ELSE [error |-> LookupError, key |-> Undef]
    ELSE IF ~other.bound THEN [error |-> UnboundError, key |-> Undef]
    ELSE LET key == RelationshipKey(relationships, other.pluralName)
         IN  IF key = <<>> THEN [error |-> LookupError, key |-> Undef]
             ELSE [error |-> NoError, key |-> key[1]]

\* `relationship.array = fieldNamePath.endsWith('Refs')` of linkRefToResource:
\* the relationship is the object that the descriptor holds
MarkArray(relationships, key) ==
    [relationships EXCEPT ![key] =
        SetProp(@, "array", EndsWithRefs(@.fieldNamePath))]

\* a version of linkResource that treats every relationship as a direct one
LinkResourceOnThisSide(r, relationships, target, as) ==
    LET found == GetRelationshipFor(r.bound, relationships, as,
                     [bound |-> target.resource.bound,
                      pluralName |-> target.endpoint.pluralName])
    IN  IF found.error # NoError
        THEN [error |-> found.error, resource |-> r,
              relationships |-> relationships, target |-> target]
        ELSE [error |-> NoError,
              resource |-> [r EXCEPT !.own =
                              LinkRefToResource(Get(target.resource.own, "ref"),
                                                relationships[found.key], @)],
              relationships |-> MarkArray(relationships, found.key),
              target |-> target]

\* Resource.linkResource(resource, as) for the Resource `target` of the
\* endpoint target.endpoint, `relationships` being those of the descriptor of
\* this Resource: the error thrown, this Resource, the target and the
\* relationships of both descriptors afterwards
LinkResource(r, relationships, target, as) ==
    LET found == GetRelationshipFor(r.bound, relationships, as,
                     [bound |-> target.resource.bound,
                      pluralName |-> target.endpoint.pluralName])
        unlinked == [resource |-> r, relationships |-> relationships,
                     target |-> target]
    IN  IF found.error # NoError
        THEN [error |-> found.error] @@ unlinked
        ELSE IF relationships[found.key].type = "direct"
        THEN [error |-> NoError,
              resource |-> [r EXCEPT !.own =
                              LinkRefToResource(Get(target.resource.own, "ref"),
                                                relationships[found.key], @)],
              relationships |-> MarkArray(relationships, found.key),
              target |-> target]
        ELSE IF relationships[found.key].type = "indirect"
        THEN LET same == target.endpoint.pluralName = resourceful.pluralName
                 theirs == IF same THEN relationships
                           ELSE target.endpoint.relationships
                 back == GetRelationshipFor(target.resource.bound, theirs, as,
                             [bound |-> r.bound,
                              pluralName |-> resourceful.pluralName])
             IN  IF back.error # NoError
                 THEN [error |-> back.error] @@ unlinked
                 ELSE LET linked ==
                              [target.resource EXCEPT !.own =
                                  LinkRefToResource(Get(r.own, "ref"),
                                                    theirs[back.key], @)]
                          marked == MarkArray(theirs, back.key)
                      IN  [error |-> NoError,
                           resource |-> [r EXCEPT !.indirectlyLinkedResources =
                                                    Append(@, linked)],
                           relationships |-> IF same THEN marked
                                             ELSE relationships,
                           target |-> [resource |-> linked,
                                       endpoint |-> [target.endpoint EXCEPT
                                                       !.relationships = marked]]]
        ELSE [error |-> NoError] @@ unlinked

RECURSIVE LinkEach(_, _, _, _)
\* `resource.forEach(r => this.linkResource(r, as))` from the i-th target on,
\* `linked` being the outcome of the calls before it
LinkEach(linked, targets, as, i) ==
    IF i > Len(targets) \/ linked.error # NoError THEN linked
    ELSE LET step == LinkResource(linked.resource, linked.relationships,
                                  targets[i], as)
         IN  LinkEach([error |-> step.error, resource |-> step.resource,
                       relationships |-> step.relationships,
                       targets |-> [linked.targets EXCEPT ![i] = step.target]],
                      targets, as, i + 1)

\* Resource.link(resource, as) for one Resource (a sequence of one target) or
\* an iterable of Resources: whether it threw and what, this Resource, the
\* targets and the relationships of the descriptor afterwards
Link(r, targets, as) ==
    LET linked == LinkEach([error |-> NoError, resource |-> r,
                            relationships |-> resourceful.relationships,
                            targets |-> targets], targets, as, 1)
    IN  [threw |-> linked.error # NoError] @@ linked

\* `this.is_new === true`
IsNew(r) == "is_new" \in DOMAIN r.own /\ r.own.is_new = TRUE

----------------------------------------------------------------------------
(* ResourceCollection (the Entity Set)                                      *)

\* `resource[fieldNamePath] || []`
ThroughFields(resource, fieldNamePath) ==
    IF fieldNamePath \in DOMAIN resource THEN resource[fieldNamePath] ELSE <<>>

\* a version of the through rule that keeps the whole shared array
ThroughKeepsAll(resource, relationship, item) == TRUE

\* The through rule of the filter callback of setData:
\* `throughFields.some(field => field === item[filteredFieldNamePath])`
ThroughMatches(resource, relationship, item) ==
    LET fieldNamePath ==
            resourceful.relationships[relationship.through].fieldNamePath
        throughFields == ThroughFields(resource, fieldNamePath)
        filteredFieldNamePath ==
            IF relationship.filterName \in DOMAIN resourceful.filters
            THEN resourceful.filters[relationship.filterName].fieldNamePath
            ELSE Undef
    IN  \E i \in DOMAIN throughFields :
            throughFields[i] = Get(item, filteredFieldNamePath)

\* a version of the filter callback without the back-reference rule
KeepLinkedIgnoringBackRef(resource, link, item) ==
    LET relationship ==
            IF link \in DOMAIN resourceful.relationships
            THEN resourceful.relationships[link] ELSE NoThrough
    IN  IF ~Truthy(relationship.through) THEN TRUE
        ELSE ThroughMatches(resource, relationship, item)

\* The filter callback of setData: is `item` of rawData.linked[link] kept for
\* `resource`?
KeepLinked(resource, link, item) ==
    LET linkByRefName == resourceful.singularName \o "Ref"
        relationship ==
            IF link \in DOMAIN resourceful.relationships
            THEN resourceful.relationships[link] ELSE NoThrough
    IN  IF Truthy(Get(item, linkByRefName))
        THEN Get(item, linkByRefName) = Get(resource, "ref")
        ELSE IF ~Truthy(relationship.through) THEN TRUE
        ELSE ThroughMatches(resource, relationship, item)

\* The Resource that setData builds from one element of rawData[pluralName]
BuildResource(rawData, content) ==
    IF "linked" \in DOMAIN rawData
    THEN [k \in (DOMAIN content) \cup {"linked"} |->
            IF k = "linked"
            THEN [link \in DOMAIN rawData.linked |->
                    SelectSeq(rawData.linked[link],
                              LAMBDA item : KeepLinked(content, link, item))]
            ELSE content[k]]
    ELSE content

\* ResourceCollection.setData
SetData(rc, rawData) ==
    IF rc.bound /\ resourceful.pluralName \in DOMAIN rawData
    THEN [rc EXCEPT !.rawData = rawData,
                    !.collection =
                        [i \in DOMAIN rawData[resourceful.pluralName] |->
                            BuildResource(rawData, rawData[resourceful.pluralName][i])]]
    ELSE [rc EXCEPT !.rawData = rawData]

\* new ResourceCollection(rawData, initialCriteria, resourcefulEndpoint)
NewCollection(rawData, initialCriteria) ==
    SetData([rawData |-> <<>>, collection |-> <<>>,
             initialCriteria |-> initialCriteria, bound |-> TRUE], rawData)

\* new ResourceCollection(rawData, initialCriteria)
UnboundCollection(rawData, initialCriteria) ==
    SetData([rawData |-> <<>>, collection |-> <<>>,
             initialCriteria |-> initialCriteria, bound |-> FALSE], rawData)

\* ResourcefulEndpoint.newResourceCollection(data) for an array `data`
NewResourceCollection(data) ==
    NewCollection((resourceful.pluralName :> data), "")

\* ResourceCollection.totalCount; meta.totalCount = 0 stands for a meta
\* without totalCount (0 is falsy as well)
TotalCount(rc) ==
    IF "meta" \in DOMAIN rc.rawData /\ rc.rawData.meta.totalCount # 0
    THEN rc.rawData.meta.totalCount
    ELSE Len(rc.collection)

\* The omitted `size` argument of explode / save
NoSize == 0

\* ResourceCollection.explode(size), size >= 1 or omitted
Explode(rc, size) ==
    LET batchSize == IF size # NoSize THEN size ELSE BatchSize
        numberOfPages == Ceil(TotalCount(rc), batchSize)
    IN  [i \in 1..numberOfPages |->
            LET slice == Slice(rc.collection, (i - 1) * batchSize,
                               ((i - 1) * batchSize) + batchSize)
            IN  NewResourceCollection([j \in DOMAIN slice |-> ToJSON(slice[j])])]

----------------------------------------------------------------------------
(* Query criteria.  A query string is the sequence of its `&`-separated     *)
(* fragments, a fragment `key=v1,v2` the record of its key and its          *)
(* comma-separated values; the empty string is the one empty fragment.      *)

Frag(k, v) == [k |-> k, v |-> v]

EmptyFrag == Frag("", <<>>)

EmptyQueryString == <<EmptyFrag>>

\* new Query(query): `query || ''`, sort null, sortModifier ''
NewQuery(query) ==
    [kind |-> "query", query |-> query, sort |-> Undef, sortModifier |-> ""]

\* a criteria given as a plain string
StringCriteria(query) ==
    [kind |-> "string", query |-> query, sort |-> Undef, sortModifier |-> ""]

\* an omitted criteria
NoCriteria ==
    [kind |-> "none", query |-> EmptyQueryString, sort |-> Undef, sortModifier |-> ""]

\* Query.and(fragment)
QueryAnd(q, frag) == [q EXCEPT !.query = Append(@, frag)]

\* Query.include(...includes)
QueryInclude(q, includes) == [q EXCEPT !.query = Append(@, Frag("include", includes))]

\* Query.fields(...fieldName)
QueryFields(q, names) == [q EXCEPT !.query = Append(@, Frag("fields", names))]

\* Query.orderBy(fieldName)
QueryOrderBy(q, fieldName) == [q EXCEPT !.sort = fieldName]

\* Query.desc()
QueryDesc(q) == [q EXCEPT !.sortModifier = "-"]

\* Query.count()
QueryCount(q) == [q EXCEPT !.query = Append(@, Frag("count", <<"true">>))]

\* Query.continue()
QueryContinue(q) == [q EXCEPT !.query = Append(@, Frag("continue", <<"true">>))]

\* Query.lang(value)
QueryLang(q, value) == [q EXCEPT !.query = Append(@, Frag("lang", <<value>>))]

\* Query.perPage(value)
QueryPerPage(q, value) == [q EXCEPT !.query = Append(@, Frag("perPage", <<value>>))]

\* Query.asc()
QueryAsc(q) == [q EXCEPT !.sortModifier = ""]

\* a rendering that puts the sort fragment where orderBy found the query
ToQueryStringSortFirst(q) ==
    IF Truthy(q.sort)
    THEN <<[k |-> "sort", v |-> <<q.sortModifier \o q.sort>>]>> \o q.query
    ELSE q.query

\* Query.toQueryString()
ToQueryString(q) ==
    IF Truthy(q.sort)
    THEN Append(q.query, [k |-> "sort", v |-> <<q.sortModifier \o q.sort>>])
    ELSE q.query

\* Array.prototype.find: the index of the first fragment with key k, 0 if none
FindFrag(params, k) ==
    IF \E i \in DOMAIN params : params[i].k = k
    THEN CHOOSE i \in DOMAIN params :
            params[i].k = k /\ \A j \in 1..(i - 1) : params[j].k # k
    ELSE 0

\* queryString.parse(query, {ignoreQueryPrefix, allowDots}): the parsed
\* object as the sequence of its entries in key order.  A key that occurs
\* several times has the array of its values (vs), at the place of its first
\* occurrence; the empty fragment gives no key.
QsParse(query) ==
    LET first == SelectSeq([i \in DOMAIN query |-> i],
                    LAMBDA i : /\ query[i].k # ""
                               /\ \A j \in 1..(i - 1) : query[j].k # query[i].k)
    IN  [n \in DOMAIN first |->
            LET key == query[first[n]].k
                same == SelectSeq(query, LAMBDA f : f.k = key)
            IN  [k |-> key, vs |-> [m \in DOMAIN same |-> same[m].v]]]

\* queryString.stringify(parsed, {encode: false, allowDots, indices: false}):
\* an array value is written as the repeated key, an undefined value (vs =
\* <<>>) is left out
QsStringify(parsed) ==
    LET frags == Flatten([n \in DOMAIN parsed |->
                    [m \in DOMAIN parsed[n].vs |-> Frag(parsed[n].k, parsed[n].vs[m])]])
    IN  IF frags = <<>> THEN EmptyQueryString ELSE frags

\* the index of the entry of key k in a parsed object, 0 if none
QsKey(parsed, k) ==
    IF \E n \in DOMAIN parsed : parsed[n].k = k
    THEN CHOOSE n \in DOMAIN parsed : parsed[n].k = k
    ELSE 0

\* String.prototype.split(',') of a value: '' splits into ['']
CommaSplit(v) == IF v = <<>> THEN <<"">> ELSE v

\* the map callback of Query.addRelatedThroughFields: the fieldNamePath of
\* the relationship that `include` goes through, Undef (false) if none
QueryThroughFieldOf(relationships, include) ==
    LET through == IF include \in DOMAIN relationships
                   THEN relationships[include].through ELSE Undef
    IN  IF through \in DOMAIN relationships
        THEN relationships[through].fieldNamePath
        ELSE Undef

\* Query.addRelatedThroughFields(relationships, allFields): the Query after
\* the call, or threw = TRUE when `include` or `fields` was parsed into an
\* array, which has no split method (TypeError)
AddRelatedThroughFields(q, relationships, allFields) ==
    LET parsedQueryString == QsParse(q.query)
        include == QsKey(parsedQueryString, "include")
        found == QsKey(parsedQueryString, "fields")
        isArray(n) == n # 0 /\ Len(parsedQueryString[n].vs) > 1
        includes == IF include # 0
                    THEN CommaSplit(parsedQueryString[include].vs[1]) ELSE <<>>
        fields == IF found # 0
                  THEN CommaSplit(parsedQueryString[found].vs[1]) ELSE <<>>
        filteredIncludes ==
            SelectSeq([i \in DOMAIN includes |->
                          QueryThroughFieldOf(relationships, includes[i])], Truthy)
        newFields == IF filteredIncludes # <<>>
                     THEN (IF fields # <<>> THEN fields ELSE allFields)
                          \o filteredIncludes
                     ELSE fields
        value == IF newFields # <<>> THEN <<newFields>> ELSE <<>>
        assigned == IF found # 0
                    THEN [parsedQueryString EXCEPT ![found].vs = value]
                    ELSE Append(parsedQueryString, [k |-> "fields", vs |-> value])
    IN  IF isArray(include) \/ isArray(found)
        THEN [threw |-> TRUE, query |-> q]
        ELSE [threw |-> FALSE,
              query |-> [q EXCEPT !.query = QsStringify(assigned)]]

----------------------------------------------------------------------------
(* ResourcefulEndpoint (the Collection Endpoint)                            *)

\* ResourcefulEndpoint.criteriaToQuery
CriteriaToQuery(criteria) ==
    LET owner == <<Frag("owner", <<resourceful.tenant>>)>>
    IN  IF criteria.kind = "string"
        THEN IF criteria.query # EmptyQueryString THEN owner \o criteria.query
             ELSE owner
        ELSE IF criteria.kind = "query" THEN owner \o ToQueryString(criteria)
        ELSE owner

\* Array.prototype.join(','): undefined elements become ''
Join(parts) == [i \in DOMAIN parts |-> IF parts[i] = Undef THEN "" ELSE parts[i]]

\* the joined string is '' (falsy)
IsEmptyString(joined) == joined = <<>> \/ joined = <<"">>

\* ResourcefulEndpoint.endPointUrl(ref, criteria); ref is the sequence of the
\* comma-joined refs, <<>> for null, undefined or ''
EndPointUrl(ref, criteria) ==
    [location |-> resourceful.location,
     name |-> resourceful.hyphenatedPluralName,
     ref |-> IF IsEmptyString(ref) THEN <<>> ELSE ref,
     query |-> CriteriaToQuery(criteria)]

\* the fieldNamePath of the relationship that `include` goes through, Undef
\* when `include` is no relationship or has no `through`
ThroughFieldOf(include) ==
    LET through == IF include \in DOMAIN resourceful.relationships
                   THEN resourceful.relationships[include].through ELSE Undef
    IN  IF ~Truthy(through) THEN Undef
        ELSE IF through \in DOMAIN resourceful.relationships
        THEN resourceful.relationships[through].fieldNamePath
        ELSE Undef

\* `includes.map(...).filter(fieldNamePath => fieldNamePath)`
FilteredIncludes(includes) ==
    SelectSeq([i \in DOMAIN includes |-> ThroughFieldOf(includes[i])], Truthy)

\* ResourcefulEndpoint.getRelatedThroughFields(criteria): the criteria it
\* returns (the Query object is changed in place), or threw = TRUE when
\* `params.find(...)` is undefined and `.replace` raises a TypeError
GetRelatedThroughFields(criteria) ==
    IF criteria.kind # "query" \/ criteria.query = EmptyQueryString
    THEN [threw |-> FALSE, criteria |-> criteria]
    ELSE LET params == criteria.query
             include == FindFrag(params, "include")
             found == FindFrag(params, "fields")
             fields == IF found # 0 THEN params[found].v ELSE <<>>
         IN  IF include = 0 THEN [threw |-> TRUE, criteria |-> criteria]
             ELSE LET filteredIncludes == FilteredIncludes(params[include].v)
                      replaced ==
                          [i \in DOMAIN params |->
                              IF params[i].k = "fields"
                              THEN Frag("fields", fields \o filteredIncludes)
                              ELSE params[i]]
                      newQuery ==
                          IF found # 0 THEN replaced
                          ELSE Append(replaced, Frag("fields", filteredIncludes))
                  IN  IF filteredIncludes = <<>>
                      THEN [threw |-> FALSE, criteria |-> criteria]
                      ELSE [threw |-> FALSE,
                            criteria |-> [criteria EXCEPT !.query = newQuery]]

\* The request of ResourcefulEndpoint.browse(criteria), after augmentation
BrowseRequest(criteria) ==
    [method |-> "GET", url |-> EndPointUrl(<<>>, criteria), body |-> <<>>]

\* The request of ResourcefulEndpoint.store(c) for a ResourceCollection c
StoreRequest(c) ==
    [method |-> "POST", url |-> EndPointUrl(<<>>, NoCriteria),
     body |-> [i \in DOMAIN c.collection |-> ToJSON(c.collection[i])]]

\* The request of ResourcefulEndpoint.destroy(ref) for a string ref
DestroyRequest(ref) ==
    [method |-> "DELETE", url |-> EndPointUrl(ref, NoCriteria), body |-> <<>>]

\* `this.endPointUrl(resource.ref)`
RefOf(r) == IF Truthy(Get(r.own, "ref")) THEN <<r.own.ref>> ELSE <<>>

\* The request of ResourcefulEndpoint.store(resource) for a Resource
StoreResourceRequest(r) ==
    [method |-> "POST", url |-> EndPointUrl(<<>>, NoCriteria),
     body |-> <<ResourceToJSON(r)>>]

\* The request of ResourcefulEndpoint.update(resource)
UpdateRequest(r) ==
    [method |-> "PUT", url |-> EndPointUrl(RefOf(r), NoCriteria),
     body |-> <<ResourceToJSON(r)>>]

\* a flush that stores whatever is_new says
FlushAlwaysStores(r) == StoreResourceRequest(r)

\* The request of Resource.flush()
Flush(r) == IF IsNew(r) THEN StoreResourceRequest(r) ELSE UpdateRequest(r)

\* ResourcefulEndpoint.owner
EndpointOwner == resourceful.tenant

\* ResourcefulEndpoint.newResource(data), newResource() has data = {}: the
\* object `data` after the assignments of owner and ref
DataAfterNewResource(data) ==
    LET owner == IF Truthy(Get(data, "owner")) THEN data.owner ELSE EndpointOwner
        owned == SetProp(data, "owner", owner)
    IN  IF /\ Get(owned, "ref") = Undef
           /\ Truthy(owner) /\ Truthy(Get(owned, "name"))
        THEN SetProp(owned, "ref", owner \o ":" \o owned.name)
        ELSE owned

\* the Resource that newResource(data) returns
NewResource(data) ==
    Resource(DataAfterNewResource(data) @@ [is_new |-> TRUE], TRUE)

\* the constant NO_RESOURCEFUL_ENDPOINT_ERROR of the ResourceCollection module
NoCollectionEndpointError ==
    [message |-> "No resourceful endpoint tied to this resource collection."]

\* the constant NO_NEXT_PAGE_ERROR that nextPage() rejects with
NoNextPageError == [message |-> "No next page"]

\* the constant NO_PREVIOUS_PAGE_ERROR that previousPage() rejects with
NoPreviousPageError == [message |-> "No previous page"]

\* the TypeError of a property access on undefined
TypeError == [name |-> "TypeError"]

\* `this.rawData.meta.next` is set
HasNext(rawData) == "next" \in DOMAIN rawData.meta

\* `this.rawData.meta.prev` is set
HasPrev(rawData) == "prev" \in DOMAIN rawData.meta

\* a fetch that strips the path of the link only
FetchCriteriaKeepsOwner(link) == StringCriteria(link.query)

\* the criteria of ResourceCollection.fetch(newCriteria) for a link:
\* `criteria.replace(/^.+\?/, '').replace(/&?owner=[^&]+/, '')`
FetchCriteria(link) ==
    LET owner == FindFrag(link.query, "owner")
    IN  StringCriteria(
            IF owner = 0 THEN link.query
            ELSE IF owner = 1 THEN <<EmptyFrag>> \o Tail(link.query)
            ELSE SubSeq(link.query, 1, owner - 1)
                 \o SubSeq(link.query, owner + 1, Len(link.query)))

\* the merge of a page's linked map into the accumulated one
MergeLinked(linked, pageLinked) ==
    [key \in (DOMAIN linked) \cup (DOMAIN pageLinked) |->
        (IF key \in DOMAIN linked THEN linked[key] ELSE <<>>)
        \o (IF key \in DOMAIN pageLinked THEN pageLinked[key] ELSE <<>>)]

\* accumulate(resourceCollection) of all() for a page after the first:
\* `collection.rawData.linked[key]` throws when the first page had no linked
Accumulate(collection, resourceCollection) ==
    LET pluralName == resourceful.pluralName
        page == resourceCollection.rawData
        concatenated ==
            [collection EXCEPT !.rawData[pluralName] = @ \o page[pluralName]]
    IN  IF "linked" \notin DOMAIN page \/ DOMAIN page.linked = {}
        THEN [threw |-> FALSE, collection |-> concatenated]
        ELSE IF "linked" \notin DOMAIN collection.rawData
        THEN [threw |-> TRUE, collection |-> concatenated]
        ELSE [threw |-> FALSE,
              collection |->
                  [concatenated EXCEPT
                      !.rawData.linked = MergeLinked(@, page.linked)]]

\* a catch handler that swallows every error
CatchAnyError(err) == <<>>

\* `.catch((err) => { if (err === NO_NEXT_PAGE_ERROR) return collection;
\* throw err; })`: the error it rethrows, <<>> when it returns
CatchNextPage(err) == IF err = NoNextPageError THEN <<>> ELSE <<err>>

----------------------------------------------------------------------------
(* Promises                                                                 *)

NoPromise == [state |-> "none", error |-> <<>>]

PendingPromise == [state |-> "pending", error |-> <<>>]

ResolvedPromise == [state |-> "resolved", error |-> <<>>]

RejectedPromise(e) == [state |-> "rejected", error |-> <<e>>]

\* The Error object that the transport rejects call i with
TransportError(i) == ("call" :> i)

\* a slip of the catch handler: the whole set is attached, not the batch
AttachWholeSet(e, c) == e @@ ("collection" :> set)

\* `.catch((e) => { e.collection = c; throw e; })` of save()
AttachCollection(e, c) == e @@ ("collection" :> c)

\* Promise.all(promises) at its creation
PromiseAll(cs) == IF cs = <<>> THEN ResolvedPromise ELSE PendingPromise

\* a combinator that waits for every promise before it settles
PromiseWaitsForAll(p, cs, e) ==
    IF p.state # "pending" \/ \E j \in DOMAIN cs : cs[j].state = "pending" THEN p
    ELSE IF e # <<>> THEN RejectedPromise(e[1])
    ELSE IF \A j \in DOMAIN cs : cs[j].state = "ok" THEN ResolvedPromise
    ELSE p

\* Promise.all when one of its promises settles: cs are the calls after the
\* settlement, e the rejection reason (<<>> when the promise resolved)
PromiseAllSettled(p, cs, e) ==
    IF p.state # "pending" THEN p
    ELSE IF e # <<>> THEN RejectedPromise(e[1])
    ELSE IF \A j \in DOMAIN cs : cs[j].state = "ok" THEN ResolvedPromise
    ELSE p

\* `new Error(this)`: the message is String(this), the Resource is not kept
ErrorOf(r) == [name |-> "Error", message |-> "[object Object]"]

\* Resource.validate(): whether it raised a TypeError (Object.keys(null)
\* without descriptor, or a validateField that threw), the Resource with its
\* new `errors`, and the promise it returns with its value
Validate(r) ==
    IF ~HasResourceFields(r)
    THEN [threw |-> TRUE, resource |-> [r EXCEPT !.errors = <<>>],
          promise |-> NoPromise, value |-> <<>>]
    ELSE LET names == ObjectKeys(resourceful.fields)
             results == [i \in DOMAIN names |-> ValidateField(r, names[i])]
             threw == \E i \in DOMAIN results : results[i].threw
             last == IF threw
                     THEN (CHOOSE i \in DOMAIN results :
                             /\ results[i].threw
                             /\ \A j \in 1..(i - 1) : ~results[j].threw) - 1
                     ELSE Len(results)
             errors == SelectSeq(SubSeq(results, 1, last), LAMBDA v : ~v.valid)
             validated == [r EXCEPT !.errors = errors]
         IN  IF threw
             THEN [threw |-> TRUE, resource |-> validated,
                   promise |-> NoPromise, value |-> <<>>]
             ELSE IF errors # <<>>
             THEN [threw |-> FALSE, resource |-> validated,
                   promise |-> RejectedPromise(ErrorOf(validated)), value |-> <<>>]
             ELSE [threw |-> FALSE, resource |-> validated,
                   promise |-> ResolvedPromise, value |-> <<validated>>]

----------------------------------------------------------------------------
(* Batch operations of the Entity Set: explode, save, destroy               *)

Entity(i) == [ref |-> RefName(i)]

\* contents arrays of a payload: up to MaxItems entities, in either order
ItemSeqs ==
    UNION { { [i \in 1..n |-> Entity(i)], [i \in 1..n |-> Entity(n + 1 - i)] } :
            n \in 0..MaxItems }

\* payloads of an endpoint-bound set: built from an array (no meta) or
\* received from a browse (meta, with or without totalCount)
BatchPayloads ==
    { ("contents" :> items) : items \in ItemSeqs }
    \cup { ("contents" :> items) @@ ("meta" :> [totalCount |-> t]) :
           items \in ItemSeqs, t \in 0..MaxTotal }

\* The calls `this.explode(batchSize).map(c => this.resourcefulEndpoint.store(c)...)`
SaveCalls(batches) ==
    [i \in DOMAIN batches |->
        [request |-> StoreRequest(batches[i]), batch |-> batches[i],
         state |-> "pending"]]

\* c.collection.map(r => r.ref).join(',')
JoinedRefs(c) == Join([i \in DOMAIN c.collection |-> Get(c.collection[i], "ref")])

\* The calls `this.explode().map(c => this.resourcefulEndpoint.destroy(...))`
DestroyCalls(batches) ==
    [i \in DOMAIN batches |->
        [request |-> DestroyRequest(JoinedRefs(batches[i])), batch |-> batches[i],
         state |-> "pending"]]

BatchInit ==
    /\ NoClient
    /\ resourceful \in { Descriptor(l) : l \in 0..MaxLimit }
    /\ set \in { NewCollection(p, "") : p \in BatchPayloads }
    /\ op = [name |-> "none", size |-> NoSize]
    /\ exploded = <<>>
    /\ calls = <<>>
    /\ promise = NoPromise
    /\ userCriteria = NoCriteria
    /\ pages = <<>>
    /\ acc = <<>>
    /\ result = <<>>
    /\ directives = <<>>
    /\ entity = <<>>

\* set.explode(size)
ExplodeCall(size) ==
    /\ op.name = "none"
    /\ op' = [name |-> "explode", size |-> size]
    /\ exploded' = Explode(set, size)
    /\ UNCHANGED clientVars
    /\ UNCHANGED <<resourceful, set, calls, promise, pagingVars, entityVars>>

\* set.save(batchSize): every store call is issued in the same turn
SaveCall(size) ==
    /\ op.name = "none"
    /\ op' = [name |-> "save", size |-> size]
    /\ IF set.bound
       THEN /\ exploded' = Explode(set, size)
            /\ calls' = SaveCalls(exploded')
            /\ promise' = PromiseAll(calls')
       ELSE /\ UNCHANGED <<exploded, calls>>
            /\ promise' = RejectedPromise(NoCollectionEndpointError)
    /\ UNCHANGED clientVars
    /\ UNCHANGED <<resourceful, set, pagingVars, entityVars>>

\* the transport settles the store call of batch i
StoreSettles(i, ok) ==
    /\ op.name = "save"
    /\ i \in DOMAIN calls
    /\ calls[i].state = "pending"
    /\ calls' = [calls EXCEPT ![i].state = IF ok THEN "ok" ELSE "failed"]
    /\ promise' = PromiseAllSettled(promise, calls',
            IF ok THEN <<>> ELSE <<AttachCollection(TransportError(i), calls[i].batch)>>)
    /\ UNCHANGED clientVars
    /\ UNCHANGED <<resourceful, set, op, exploded, pagingVars, entityVars>>

\* set.destroy()
DestroyCall ==
    /\ op.name = "none"
    /\ op' = [name |-> "destroy", size |-> NoSize]
    /\ IF set.bound
       THEN /\ exploded' = Explode(set, NoSize)
            /\ calls' = DestroyCalls(exploded')
            /\ promise' = PromiseAll(calls')
       ELSE /\ UNCHANGED <<exploded, calls>>
            /\ promise' = RejectedPromise(NoCollectionEndpointError)
    /\ UNCHANGED clientVars
    /\ UNCHANGED <<resourceful, set, pagingVars, entityVars>>

\* the transport settles the delete call of batch i
DestroySettles(i, ok) ==
    /\ op.name = "destroy"
    /\ i \in DOMAIN calls
    /\ calls[i].state = "pending"
    /\ calls' = [calls EXCEPT ![i].state = IF ok THEN "ok" ELSE "failed"]
    /\ promise' = PromiseAllSettled(promise, calls',
            IF ok THEN <<>> ELSE <<TransportError(i)>>)
    /\ UNCHANGED clientVars
    /\ UNCHANGED <<resourceful, set, op, exploded, pagingVars, entityVars>>

BatchNext ==
    \/ \E size \in 0..MaxSize : ExplodeCall(size)
    \/ \E size \in 0..MaxSize : SaveCall(size)
    \/ \E i \in DOMAIN calls, ok \in BOOLEAN : StoreSettles(i, ok)
    \/ DestroyCall
    \/ \E i \in DOMAIN calls, ok \in BOOLEAN : DestroySettles(i, ok)

SpecBatch == BatchInit /\ [][BatchNext]_vars

----------------------------------------------------------------------------
(* Properties of the batch operations                                       *)

\* the batch size that explode(op.size) works with
UsedBatchSize == IF op.size # NoSize THEN op.size ELSE BatchSize

\* the JSON of the local collection, in order
CollectionJSON == [i \in DOMAIN set.collection |-> ToJSON(set.collection[i])]

\* the JSON of the entities of the batches, concatenated in batch order
BatchesJSON(batches) ==
    Flatten([i \in DOMAIN batches |->
                [j \in DOMAIN batches[i].collection |-> ToJSON(batches[i].collection[j])]])

(* C1: explode(n) on a set of N entities, with or without meta.totalCount,  *)
(* returns exactly ceil(N/n) sets, each of 1..n entities, whose             *)
(* concatenation is the local collection in order.                          *)
C1_ExplodePartitionsCollection ==
    op.name = "explode" =>
        /\ Len(exploded) = Ceil(Len(set.collection), UsedBatchSize)
        /\ \A i \in DOMAIN exploded :
                /\ Len(exploded[i].collection) <= UsedBatchSize
                /\ Len(exploded[i].collection) >= 1
        /\ BatchesJSON(exploded) = CollectionJSON

C5_SaveSettlesAfterAllCalls ==
    (op.name = "save" /\ promise.state \in {"resolved", "rejected"}) =>
        \A i \in DOMAIN calls : calls[i].state # "pending"

(* C5, amended: the promise of save() is resolved exactly when the store    *)
(* call of every batch has succeeded, and rejected exactly when the store   *)
(* call of at least one batch has failed, whether or not other calls are    *)
(* still in flight; the rejection carries the error of one failed batch.    *)
C5_SaveSettlesAsPromiseAll ==
    op.name = "save" =>
        /\ promise.state = "resolved" <=> \A i \in DOMAIN calls : calls[i].state = "ok"
        /\ promise.state = "rejected" <=> \E i \in DOMAIN calls : calls[i].state = "failed"
        /\ promise.state = "rejected" =>
                /\ Len(promise.error) = 1
                /\ calls[promise.error[1].call].state = "failed"

\* save() has rejected while the store call of another batch is in flight
C5_Witness ==
    /\ op.name = "save"
    /\ promise.state = "rejected"
    /\ \E i \in DOMAIN calls : calls[i].state = "pending"
    /\ \E i \in DOMAIN calls : calls[i].state = "failed"

(* C6: destroy() issues one delete call per batch of the default batch      *)
(* size, addressed by the comma-joined refs of the batch: every ref of the  *)
(* local collection is addressed by exactly one call and no call is         *)
(* addressed by an empty ref list.                                          *)
C6_DestroyAddressesEveryRefOnce ==
    op.name = "destroy" =>
        /\ Len(calls) = Len(exploded)
        /\ \A i \in DOMAIN calls :
                /\ calls[i].request.method = "DELETE"
                /\ calls[i].request.url.ref # <<>>
        /\ \A k \in DOMAIN set.collection :
                Cardinality({ <<i, j>> \in (DOMAIN calls) \X (1..MaxItems) :
                                /\ j \in DOMAIN calls[i].request.url.ref
                                /\ calls[i].request.url.ref[j] = set.collection[k].ref }) = 1

----------------------------------------------------------------------------
(* setData on an endpoint-bound Entity Set                                  *)

\* the values of the through field relatedMaterialRefs of a content
ThroughValues == { <<"m:1">>, <<"m:2", "m:1">> }

\* contents arrays: entity i has the ref t:i, with or without a through field
ContentSeqs ==
    UNION { { [i \in 1..n |->
                IF has[i] THEN [ref |-> RefName(i), relatedMaterialRefs |-> mats[i]]
                ELSE [ref |-> RefName(i)]] :
              has \in [1..n -> BOOLEAN], mats \in [1..n -> ThroughValues] } :
            n \in 0..MaxContents }

\* linked items: with or without a (possibly empty) contentRef back
\* reference, with or without the field materialRef of the through filter
LinkedItems ==
    { back @@ mat : back \in { <<>> } \cup { ("contentRef" :> r) : r \in {"", RefName(1), RefName(2)} },
                    mat \in { <<>>, ("materialRef" :> "m:1") } }

LinkedSeqs == UNION { [1..n -> LinkedItems] : n \in 0..MaxLinked }

\* payloads: no linked map, an empty one, or one relationship's array
SetDataPayloads ==
    { ("contents" :> items) : items \in ContentSeqs }
    \cup { ("contents" :> items) @@ ("linked" :> <<>>) : items \in ContentSeqs }
    \cup { ("contents" :> items) @@ ("linked" :> (link :> linked)) :
           items \in ContentSeqs, link \in DOMAIN Relationships \ {"relatedMaterials"},
           linked \in LinkedSeqs }

SetDataInit ==
    /\ NoClient
    /\ resourceful = Descriptor(0)
    /\ set = NewCollection(("contents" :> <<>>), "")
    /\ op = [name |-> "none", size |-> NoSize]
    /\ exploded = <<>>
    /\ calls = <<>>
    /\ promise = NoPromise
    /\ userCriteria = NoCriteria
    /\ pages = <<>>
    /\ acc = <<>>
    /\ result = <<>>
    /\ directives = <<>>
    /\ entity = <<>>

\* set.setData(rawData)
SetDataCall(rawData) ==
    /\ op.name = "none"
    /\ op' = [name |-> "setData", size |-> NoSize]
    /\ set' = SetData(set, rawData)
    /\ UNCHANGED clientVars
    /\ UNCHANGED <<resourceful, exploded, calls, promise, pagingVars, entityVars>>

SetDataNext ==
    \E rawData \in (IF op.name = "none" THEN SetDataPayloads ELSE {}) :
        SetDataCall(rawData)

SpecSetData == SetDataInit /\ [][SetDataNext]_vars

\* the linked item holds a value in `<singularName>Ref` (absent, null and ''
\* are no value)
CarriesBackRef(item) ==
    /\ (resourceful.singularName \o "Ref") \in DOMAIN item
    /\ item[resourceful.singularName \o "Ref"] \notin {Undef, ""}

\* the entities and relationship keys that setData has filtered
Filtered ==
    IF op.name = "setData" /\ "linked" \in DOMAIN set.rawData
    THEN (DOMAIN set.collection) \X (DOMAIN set.rawData.linked)
    ELSE {}

(* C8: after setData, for every entity e and relationship key k, the linked *)
(* items of the payload that carry `<singularName>Ref` are in e.linked[k]   *)
(* exactly when that field equals e.ref, in payload order.                  *)
C8_BackRefItemsFilteredByRef ==
    \A ek \in Filtered :
        LET e == set.collection[ek[1]]
            payload == set.rawData.linked[ek[2]]
        IN  /\ "linked" \in DOMAIN e /\ ek[2] \in DOMAIN e.linked
            /\ SelectSeq(e.linked[ek[2]], CarriesBackRef)
               = SelectSeq(payload,
                    LAMBDA item : CarriesBackRef(item)
                                  /\ item[resourceful.singularName \o "Ref"] = e.ref)

\* the payload {contents: [{ref: 't:1'}], linked: {assets: [{contentRef:
\* 't:1'}, {contentRef: 't:2'}]}} has been bound
C8_Witness ==
    /\ op.name = "setData"
    /\ set.rawData = ("contents" :> <<[ref |-> "t:1"]>>)
          @@ ("linked" :> ("assets" :> <<[contentRef |-> "t:1"], [contentRef |-> "t:2"]>>))
    /\ set.collection[1].linked.assets = <<[contentRef |-> "t:1"]>>

\* the values of entity e in the foreign-key field of relationship `through`
ThroughValuesOf(e, through) ==
    LET path == Relationships[through].fieldNamePath
    IN  IF path \in DOMAIN e THEN Range(e[path]) ELSE {}

\* the value of a linked item at the filter field path of relationship k
FilterValueOf(item, k) ==
    LET path == Filters[Relationships[k].filterName].fieldNamePath
    IN  IF path \in DOMAIN item THEN <<item[path]>> ELSE <<>>

(* C9: after setData, the linked items that carry no `<singularName>Ref`    *)
(* are, for a relationship with `through`, in e.linked[k] exactly when      *)
(* their value at the relationship's filter field path is one of e's values *)
(* in the through relationship's foreign-key field; for a relationship      *)
(* without `through` they are all kept for every entity.                    *)
C9_ThroughItemsFilteredByHop ==
    \A ek \in Filtered :
        LET e == set.collection[ek[1]]
            k == ek[2]
            payload == set.rawData.linked[k]
            plain(item) == ~CarriesBackRef(item)
        IN  IF Relationships[k].through # Undef
            THEN SelectSeq(e.linked[k], plain)
                 = SelectSeq(payload,
                      LAMBDA item :
                          /\ plain(item)
                          /\ \E v \in ThroughValuesOf(e, Relationships[k].through) :
                                FilterValueOf(item, k) = <<v>>)
            ELSE SelectSeq(e.linked[k], plain) = SelectSeq(payload, plain)

\* a through relationship's shared array of two items, only one of which
\* correlates with the entity's through field
C9_Witness ==
    /\ op.name = "setData"
    /\ Len(set.collection) >= 1
    /\ "linked" \in DOMAIN set.rawData
    /\ "relatedMaterials.assets" \in DOMAIN set.rawData.linked
    /\ set.rawData.linked["relatedMaterials.assets"]
          = <<[materialRef |-> "m:1"], <<>>>>
    /\ "relatedMaterialRefs" \in DOMAIN set.collection[1]
    /\ set.collection[1].relatedMaterialRefs = <<"m:2", "m:1">>
    /\ set.collection[1].linked["relatedMaterials.assets"] = <<[materialRef |-> "m:1"]>>

----------------------------------------------------------------------------
(* browse with a criteria built by the fluent Query interface               *)

\* where(), where('title=x'), the string 'include=relatedMaterials.assets'
\* and an omitted criteria
InitialCriteria ==
    { NewQuery(EmptyQueryString), NewQuery(<<Frag("title", <<"x">>)>>),
      StringCriteria(<<Frag("include", <<"relatedMaterials.assets">>)>>),
      NoCriteria }

IncludeLists ==
    { <<"assets">>, <<"relatedMaterials.assets">>,
      <<"assets", "relatedMaterials.assets">> }

FieldLists == { <<"title">>, <<"ref", "title">> }

\* the payloads that the service answers a browse with
BrowsePayloads ==
    { ("contents" :> <<>>) @@ ("meta" :> [totalCount |-> 0]),
      ("contents" :> <<[ref |-> RefName(1), relatedMaterialRefs |-> <<"m:1">>]>>)
        @@ ("linked" :> ("relatedMaterials.assets" :> <<[materialRef |-> "m:1"]>>))
        @@ ("meta" :> [totalCount |-> 1]) }

BrowseInit ==
    /\ NoClient
    /\ resourceful = Descriptor(0)
    /\ set = NewCollection(("contents" :> <<>>), "")
    /\ op = [name |-> "none", size |-> NoSize]
    /\ exploded = <<>>
    /\ calls = <<>>
    /\ promise = NoPromise
    /\ userCriteria \in InitialCriteria
    /\ pages = <<>>
    /\ acc = <<>>
    /\ result = <<>>
    /\ directives = <<>>
    /\ entity = <<>>

\* the caller may extend a Query criteria before the browse
Building ==
    /\ op.name = "none"
    /\ userCriteria.kind = "query"
    /\ Len(userCriteria.query) <= MaxFrags

\* criteria.include(...includes)
IncludeCall(includes) ==
    /\ Building
    /\ userCriteria' = QueryInclude(userCriteria, includes)
    /\ UNCHANGED clientVars
    /\ UNCHANGED <<resourceful, set, op, exploded, calls, promise, pages, acc, result, entityVars>>

\* criteria.fields(...fieldName)
FieldsCall(names) ==
    /\ Building
    /\ userCriteria' = QueryFields(userCriteria, names)
    /\ UNCHANGED clientVars
    /\ UNCHANGED <<resourceful, set, op, exploded, calls, promise, pages, acc, result, entityVars>>

\* criteria.and(query)
AndCall(frag) ==
    /\ Building
    /\ userCriteria' = QueryAnd(userCriteria, frag)
    /\ UNCHANGED clientVars
    /\ UNCHANGED <<resourceful, set, op, exploded, calls, promise, pages, acc, result, entityVars>>

\* criteria.orderBy(fieldName)
OrderByCall(fieldName) ==
    /\ Building
    /\ userCriteria.sort = Undef
    /\ userCriteria' = QueryOrderBy(userCriteria, fieldName)
    /\ UNCHANGED clientVars
    /\ UNCHANGED <<resourceful, set, op, exploded, calls, promise, pages, acc, result, entityVars>>

\* criteria.desc()
DescCall ==
    /\ Building
    /\ userCriteria.sortModifier = ""
    /\ userCriteria' = QueryDesc(userCriteria)
    /\ UNCHANGED clientVars
    /\ UNCHANGED <<resourceful, set, op, exploded, calls, promise, pages, acc, result, entityVars>>

\* endpoint.browse(criteria): the augmentation runs before transport.get is
\* called, so its TypeError is thrown to the caller and no request is made
BrowseCall ==
    /\ op.name = "none"
    /\ LET augmented == GetRelatedThroughFields(userCriteria)
       IN  /\ op' = [name |-> "browse", given |-> userCriteria,
                     threw |-> augmented.threw, browses |-> 1]
           /\ IF augmented.threw
              THEN UNCHANGED <<userCriteria, calls, promise>>
              ELSE /\ userCriteria' = augmented.criteria
                   /\ calls' = <<[request |-> BrowseRequest(augmented.criteria),
                                  state |-> "pending"]>>
                   /\ promise' = PendingPromise
    /\ UNCHANGED clientVars
    /\ UNCHANGED <<resourceful, set, exploded, pages, acc, result, entityVars>>

\* endpoint.browse(criteria) once more with the same criteria object, after
\* the browse before it has settled
BrowseAgainCall ==
    /\ op.name = "browse" /\ ~op.threw
    /\ op.browses < MaxBrowses
    /\ calls[Len(calls)].state # "pending"
    /\ LET augmented == GetRelatedThroughFields(userCriteria)
       IN  /\ ~augmented.threw
           /\ op' = [op EXCEPT !.browses = @ + 1]
           /\ userCriteria' = augmented.criteria
           /\ calls' = Append(calls,
                          [request |-> BrowseRequest(augmented.criteria),
                           state |-> "pending"])
           /\ promise' = PendingPromise
    /\ UNCHANGED clientVars
    /\ UNCHANGED <<resourceful, set, exploded, pages, acc, result, entityVars>>

\* the transport settles the GET of the last browse: `json => new
\* ResourceCollection(json, criteria, this)` or the rejection
BrowseSettles(ok, json) ==
    /\ op.name = "browse"
    /\ calls # <<>> /\ calls[Len(calls)].state = "pending"
    /\ calls' = [calls EXCEPT ![Len(calls)].state = IF ok THEN "ok" ELSE "failed"]
    /\ IF ok
       THEN /\ result' = <<NewCollection(json, userCriteria)>>
            /\ promise' = ResolvedPromise
       ELSE /\ result' = result
            /\ promise' = RejectedPromise(TransportError(Len(calls)))
    /\ UNCHANGED clientVars
    /\ UNCHANGED <<resourceful, set, op, exploded, userCriteria, pages, acc, entityVars>>

BrowseNext ==
    \/ \E includes \in IncludeLists : IncludeCall(includes)
    \/ \E names \in FieldLists : FieldsCall(names)
    \/ AndCall(Frag("title", <<"x">>))
    \/ OrderByCall("title")
    \/ DescCall
    \/ BrowseCall
    \/ BrowseAgainCall
    \/ \E ok \in BOOLEAN, json \in BrowsePayloads : BrowseSettles(ok, json)

SpecBrowse == BrowseInit /\ [][BrowseNext]_vars

\* the through field paths of every relationship that the query includes
IncludedThroughFields(query) ==
    Flatten([i \in DOMAIN query |->
                IF query[i].k = "include" THEN FilteredIncludes(query[i].v)
                ELSE <<>>])

\* the query has a `fields` directive
HasFields(query) == \E i \in DOMAIN query : query[i].k = "fields"

\* the criteria of the sent URL: what follows `?owner=<tenant>&`
SentCriteria == Tail(calls[1].request.url.query)

(* C10: browse with a Query criteria issues exactly one GET to              *)
(* <location>/<hyphenatedPluralName>?owner=<tenant>&<criteria>, where the   *)
(* criteria is the given one when no included relationship has a through;   *)
(* otherwise its `fields` directive has the through field path appended,    *)
(* and when it had no `fields` directive the requested fields are all the   *)
(* descriptor's fields plus the through field path.                         *)
C10_BrowseSendsAugmentedCriteria ==
    (op.name = "browse" /\ op.given.kind = "query") =>
        /\ Len(calls) = op.browses
        /\ calls[1].request.method = "GET"
        /\ calls[1].request.url.location = resourceful.location
        /\ calls[1].request.url.name = resourceful.hyphenatedPluralName
        /\ calls[1].request.url.ref = <<>>
        /\ Head(calls[1].request.url.query) = Frag("owner", <<resourceful.tenant>>)
        /\ LET given == ToQueryString(op.given)
               X == IncludedThroughFields(given)
           IN  IF X = <<>> THEN SentCriteria = given
               ELSE IF HasFields(given)
               THEN SentCriteria =
                        [i \in DOMAIN given |->
                            IF given[i].k = "fields"
                            THEN Frag("fields", given[i].v \o X)
                            ELSE given[i]]
               ELSE /\ SelectSeq(SentCriteria, LAMBDA f : f.k # "fields") = given
                    /\ \E i \in DOMAIN SentCriteria :
                          /\ SentCriteria[i].k = "fields"
                          /\ Range(SentCriteria[i].v)
                             = (DOMAIN resourceful.fields) \cup Range(X)


\* the through field paths of the relationships of the descriptor
ThroughFieldPaths ==
    { ThroughFieldOf(include) : include \in DOMAIN resourceful.relationships }
    \ {Undef}

\* the number of times that the path is asked for in the `fields` directive
\* of the query string
TimesInFields(query, path) ==
    LET found == FindFrag(query, "fields")
    IN  IF found = 0 THEN 0
        ELSE Cardinality({ j \in DOMAIN query[found].v : query[found].v[j] = path })

(* C28: browse() called again with the same Query object sends the request  *)
(* query of the first call, and no through field path is asked for more     *)
(* than once in `fields`.                                                   *)
C28_AugmentationDoesNotAccumulate ==
    (op.name = "browse" /\ op.given.kind = "query") =>
        \A i \in DOMAIN calls :
            /\ calls[i].request = calls[1].request
            /\ \A path \in ThroughFieldPaths :
                   TimesInFields(calls[i].request.url.query, path) <= 1

\* the same, for the first browse() of a criteria that does not name a
\* through field path itself
C28_FirstBrowseAddsOnce ==
    (/\ op.name = "browse" /\ op.given.kind = "query" /\ calls # <<>>
     /\ \A path \in ThroughFieldPaths :
            TimesInFields(ToQueryString(op.given), path) = 0) =>
        \A path \in ThroughFieldPaths :
            TimesInFields(calls[1].request.url.query, path) <= 1

----------------------------------------------------------------------------
(* all() against a listing of several pages                                 *)

\* the ref of entity j of page i
PageRef(i, j) == RefName(((i - 1) * MaxPerPage) + j)

PageName(i) == ToString(i)

\* the linked map of page i of P: none, an asset of the first entity of the
\* listing, an asset of the first entity of the last page, or a customer
PageLinked(i, P, choice) ==
    IF choice = "first"
    THEN ("linked" :> ("assets" :> <<[contentRef |-> PageRef(1, 1), ref |-> PageName(i)]>>))
    ELSE IF choice = "last"
    THEN ("linked" :> ("assets" :> <<[contentRef |-> PageRef(P, 1), ref |-> PageName(i)]>>))
    ELSE IF choice = "customer"
    THEN ("linked" :> ("customers" :> <<[ref |-> PageName(i)]>>))
    ELSE <<>>

\* the link to page i that the service puts in meta.next
NextLink(i) ==
    [path |-> "http://localhost/metadata/contents",
     query |-> <<Frag("owner", <<"test">>), Frag("page", <<PageName(i)>>)>>]

\* page i of a listing of P pages
Page(i, P, size, choice) ==
    ("contents" :> [j \in 1..size |-> [ref |-> PageRef(i, j)]])
    @@ PageLinked(i, P, choice)
    @@ ("meta" :> IF i < P THEN [totalCount |-> 0, next |-> NextLink(i + 1)]
                  ELSE [totalCount |-> 0])

Datasets ==
    UNION { { [i \in 1..P |-> Page(i, P, size[i], choice[i])] :
              size \in [1..P -> {1, MaxPerPage}],
              choice \in [1..P -> {"none", "first", "last", "customer"}] } :
            P \in 1..MaxPages }

\* the page that a request asks for
PageOf(request) ==
    LET page == FindFrag(request.url.query, "page")
    IN  IF page = 0 THEN 1
        ELSE CHOOSE n \in DOMAIN pages :
                PageName(n) = request.url.query[page].v[1]

AllInit ==
    /\ NoClient
    /\ resourceful = Descriptor(0)
    /\ set = NewCollection(("contents" :> <<>>), "")
    /\ op = [name |-> "none", size |-> NoSize]
    /\ exploded = <<>>
    /\ calls = <<>>
    /\ promise = NoPromise
    /\ userCriteria \in { NoCriteria, StringCriteria(<<Frag("include", <<"assets">>)>>) }
    /\ pages \in Datasets
    /\ acc = <<>>
    /\ result = <<>>
    /\ directives = <<>>
    /\ entity = <<>>

\* endpoint.all(criteria): the browse of the first page
AllCall ==
    /\ op.name = "none"
    /\ op' = [name |-> "all", size |-> NoSize]
    /\ calls' = <<[request |-> BrowseRequest(userCriteria),
                    criteria |-> userCriteria, state |-> "pending"]>>
    /\ promise' = PendingPromise
    /\ UNCHANGED clientVars
    /\ UNCHANGED <<resourceful, set, exploded, userCriteria, pages, acc, result, entityVars>>

\* the chain of all() after error e reached its catch handlers (caught =
\* FALSE for a rejection of the first browse, which no handler sees): the
\* promise of all() and the Entity Set it resolves with
AllSettles(collection, e, caught) ==
    LET thrown == IF caught THEN CatchNextPage(e) ELSE <<e>>
    IN  IF thrown = <<>>
        THEN /\ promise' = ResolvedPromise
             /\ result' = <<NewCollection(collection.rawData,
                                          collection.initialCriteria)>>
        ELSE /\ promise' = RejectedPromise(thrown[1])
             /\ result' = result

\* the transport resolves the pending GET: the page is wrapped, accumulated,
\* and its nextPage() is called
PageArrives ==
    /\ op.name = "all"
    /\ calls # <<>> /\ calls[Len(calls)].state = "pending"
    /\ LET json == pages[PageOf(calls[Len(calls)].request)]
           resourceCollection ==
               NewCollection(json, calls[Len(calls)].criteria)
           step == IF acc = <<>>
                   THEN [threw |-> FALSE, collection |-> resourceCollection]
                   ELSE Accumulate(acc[1], resourceCollection)
           settled == [calls EXCEPT ![Len(calls)].state = "ok"]
       IN  /\ acc' = <<step.collection>>
           /\ IF step.threw
              THEN /\ calls' = settled
                   /\ AllSettles(step.collection, TypeError, TRUE)
              ELSE IF HasNext(json)
              THEN /\ calls' = Append(settled,
                          [request |-> BrowseRequest(FetchCriteria(json.meta.next)),
                           criteria |-> FetchCriteria(json.meta.next),
                           state |-> "pending"])
                   /\ UNCHANGED <<promise, result>>
              ELSE /\ calls' = settled
                   /\ AllSettles(step.collection, NoNextPageError, TRUE)
    /\ UNCHANGED clientVars
    /\ UNCHANGED <<resourceful, set, op, exploded, userCriteria, pages, entityVars>>

\* the transport rejects the pending GET
PageFails ==
    /\ op.name = "all"
    /\ calls # <<>> /\ calls[Len(calls)].state = "pending"
    /\ calls' = [calls EXCEPT ![Len(calls)].state = "failed"]
    /\ AllSettles(IF acc = <<>> THEN <<>> ELSE acc[1],
                  TransportError(Len(calls)), Len(calls) > 1)
    /\ UNCHANGED clientVars
    /\ UNCHANGED <<resourceful, set, op, exploded, userCriteria, pages, acc, entityVars>>

AllNext == AllCall \/ PageArrives \/ PageFails

SpecAll == AllInit /\ [][AllNext]_vars

\* every page of the listing has been requested and delivered
AllPagesDelivered ==
    /\ op.name = "all"
    /\ calls # <<>>
    /\ \A i \in DOMAIN calls : calls[i].state = "ok"

\* the refs of the entities of the listing, page after page
ListingRefs ==
    Flatten([p \in DOMAIN pages |->
                [j \in DOMAIN pages[p].contents |-> pages[p].contents[j].ref]])

(* C2: when every requested page of a listing of P pages was delivered,     *)
(* all() has requested the P pages and resolved with one Entity Set whose   *)
(* collection holds the items of page 1..P in page order; all() never       *)
(* rejects with the 'No next page' error.                                   *)
C2_AllResolvesWithEveryPage ==
    /\ promise.state = "rejected" => promise.error # <<NoNextPageError>>
    /\ AllPagesDelivered =>
          /\ promise.state = "resolved"
          /\ Len(calls) = Len(pages)
          /\ Len(result) = 1
          /\ [i \in DOMAIN result[1].collection |-> result[1].collection[i].ref]
             = ListingRefs

(* C3: when the GET of page i is rejected by the transport, all() is        *)
(* rejected with that very error, page i is the last page requested, and    *)
(* no Entity Set is delivered.                                              *)
C3_PageFailureRejectsAll ==
    \A i \in DOMAIN calls :
        (op.name = "all" /\ calls[i].state = "failed") =>
            /\ promise = RejectedPromise(TransportError(i))
            /\ i = Len(calls)
            /\ result = <<>>

\* the second page failed after the first was accumulated
C3_Witness ==
    /\ op.name = "all"
    /\ Len(calls) = 2
    /\ calls[1].state = "ok" /\ calls[2].state = "failed"
    /\ acc # <<>>
    /\ promise = RejectedPromise(TransportError(2))

\* the browse requests of all() so far are for page 1, 2, ... in this order,
\* each issued after the response of the one before, the last one at most
\* being in flight
OnePageAtATime ==
    /\ Len(calls) <= Len(pages)
    /\ \A i \in DOMAIN calls :
           /\ PageOf(calls[i].request) = i
           /\ i < Len(calls) => calls[i].state = "ok"
    /\ Cardinality({ i \in DOMAIN calls : calls[i].state = "pending" }) <= 1

(* C22: all() requests the pages one at a time and in order, page k+1 only  *)
(* after the response of page k, and when every requested page of a         *)
(* listing of P pages was delivered exactly P requests were issued.         *)
C22_AllIsStrictlySequential ==
    op.name = "all" =>
        /\ OnePageAtATime
        /\ AllPagesDelivered => Len(calls) = Len(pages)

\* the same, for the runs of all() in which merging the linked maps raised
\* no TypeError
C22_SequentialUnlessTypeError ==
    op.name = "all" =>
        /\ OnePageAtATime
        /\ (AllPagesDelivered /\ promise # RejectedPromise(TypeError))
               => Len(calls) = Len(pages)

\* the relationship keys of the pages' linked maps
ListingLinkedKeys ==
    UNION { IF "linked" \in DOMAIN pages[p] THEN DOMAIN pages[p].linked ELSE {} :
            p \in DOMAIN pages }

\* the linked items of relationship k of the listing, page after page
ListingLinked(k) ==
    Flatten([p \in DOMAIN pages |->
                IF "linked" \in DOMAIN pages[p] /\ k \in DOMAIN pages[p].linked
                THEN pages[p].linked[k] ELSE <<>>])

(* C7: when every requested page was delivered, the Entity Set of all()     *)
(* holds, for every relationship key of any page, the pages' linked         *)
(* sub-arrays concatenated in page order, and every entity has in           *)
(* linked[k] the items of any page whose content back reference is its ref. *)
C7_AllMergesLinkedAcrossPages ==
    (AllPagesDelivered /\ ListingLinkedKeys # {}) =>
        /\ promise.state = "resolved"
        /\ Len(result) = 1
        /\ "linked" \in DOMAIN result[1].rawData
        /\ \A k \in ListingLinkedKeys :
              /\ k \in DOMAIN result[1].rawData.linked
              /\ result[1].rawData.linked[k] = ListingLinked(k)
              /\ \A e \in DOMAIN result[1].collection :
                    SelectSeq(result[1].collection[e].linked[k], CarriesBackRef)
                    = SelectSeq(ListingLinked(k),
                         LAMBDA item :
                            /\ CarriesBackRef(item)
                            /\ item.contentRef = result[1].collection[e].ref)

----------------------------------------------------------------------------
(* The fluent Query interface                                               *)

\* the field list that a caller passes as allFields
AllFields == <<"ref", "title", "relatedMaterialRefs">>

QueryInit ==
    /\ NoClient
    /\ resourceful = Descriptor(0)
    /\ set = NewCollection(("contents" :> <<>>), "")
    /\ op = [name |-> "none", values |-> <<>>]
    /\ exploded = <<>>
    /\ calls = <<>>
    /\ promise = NoPromise
    /\ userCriteria = NewQuery(EmptyQueryString)
    /\ pages = <<>>
    /\ acc = <<>>
    /\ result = <<>>
    /\ directives = <<>>
    /\ entity = <<>>

\* a directive call that appends `frag` and returns the Query
Directive(name, frag, q) ==
    /\ op.name = "none"
    /\ Len(directives) < MaxDirectives
    /\ userCriteria' = q
    /\ directives' = Append(directives, [name |-> name, frag |-> frag])
    /\ UNCHANGED clientVars
    /\ UNCHANGED <<resourceful, set, op, exploded, calls, promise, pages, acc,
                   result, entity>>

DirectiveAnd(frag) == Directive("and", frag, QueryAnd(userCriteria, frag))

DirectiveCount ==
    Directive("count", Frag("count", <<"true">>), QueryCount(userCriteria))

DirectiveContinue ==
    Directive("continue", Frag("continue", <<"true">>), QueryContinue(userCriteria))

DirectiveInclude(includes) ==
    Directive("include", Frag("include", includes), QueryInclude(userCriteria, includes))

DirectiveFields(names) ==
    Directive("fields", Frag("fields", names), QueryFields(userCriteria, names))

DirectivePerPage(value) ==
    Directive("perPage", Frag("perPage", <<value>>), QueryPerPage(userCriteria, value))

DirectiveLang(value) ==
    Directive("lang", Frag("lang", <<value>>), QueryLang(userCriteria, value))

\* orderBy(fieldName) and its helpers orderByUpdatedAt() ...
DirectiveOrderBy(fieldName) ==
    Directive("orderBy", Frag("sort", <<fieldName>>), QueryOrderBy(userCriteria, fieldName))

DirectiveAsc == Directive("asc", EmptyFrag, QueryAsc(userCriteria))

DirectiveDesc == Directive("desc", EmptyFrag, QueryDesc(userCriteria))

\* criteria.page(n): the class has no such method, the call is a TypeError
DirectivePage(n) ==
    /\ op.name = "none"
    /\ op' = [name |-> "page", values |-> <<>>, n |-> n, threw |-> TRUE]
    /\ UNCHANGED clientVars
    /\ UNCHANGED <<resourceful, set, exploded, calls, promise, userCriteria,
                   pages, acc, result, directives, entity>>

\* criteria.toQueryString(), once or twice
ToQueryStringCall ==
    /\ op.name \in {"none", "toQueryString"}
    /\ Len(op.values) < 2
    /\ op' = [name |-> "toQueryString",
              values |-> Append(op.values, ToQueryString(userCriteria)),
              given |-> userCriteria]
    /\ UNCHANGED clientVars
    /\ UNCHANGED <<resourceful, set, exploded, calls, promise, userCriteria,
                   pages, acc, result, directives, entity>>

\* criteria.addRelatedThroughFields(relationships, allFields)
AddRelatedThroughFieldsCall(allFields) ==
    /\ op.name = "none"
    /\ LET after == AddRelatedThroughFields(userCriteria, resourceful.relationships,
                                            allFields)
       IN  /\ op' = [name |-> "addRelatedThroughFields", values |-> <<>>,
                     given |-> userCriteria, allFields |-> allFields,
                     threw |-> after.threw]
           /\ userCriteria' = after.query
    /\ UNCHANGED clientVars
    /\ UNCHANGED <<resourceful, set, exploded, calls, promise, pages, acc,
                   result, directives, entity>>

QueryNext ==
    \/ DirectiveAnd(Frag("title", <<"x">>))
    \/ DirectiveCount
    \/ DirectiveContinue
    \/ \E includes \in {<<"assets">>, <<"relatedMaterials.assets">>} :
          DirectiveInclude(includes)
    \/ DirectiveFields(<<"ref", "title">>)
    \/ DirectivePerPage("24")
    \/ DirectiveLang("en")
    \/ \E fieldName \in {"title", "updatedAt"} : DirectiveOrderBy(fieldName)
    \/ DirectiveAsc
    \/ DirectiveDesc
    \/ DirectivePage("1")
    \/ ToQueryStringCall
    \/ \E allFields \in {<<>>, AllFields} : AddRelatedThroughFieldsCall(allFields)

SpecQuery == QueryInit /\ [][QueryNext]_vars

\* the directives of a query: its fragments without the empty ones
DirectivesOf(query) == SelectSeq(query, LAMBDA f : f.k # "")

\* the through field paths of the relationships that the query includes
QueryThroughFields(query) ==
    Flatten([i \in DOMAIN query |->
                IF query[i].k = "include"
                THEN SelectSeq([j \in DOMAIN query[i].v |->
                                   QueryThroughFieldOf(resourceful.relationships,
                                                       query[i].v[j])], Truthy)
                ELSE <<>>])

(* C11: after addRelatedThroughFields(relationships, allFields) the query   *)
(* has its directives unchanged, in set and order, when no included         *)
(* relationship has a through; otherwise its `fields` directive has the     *)
(* through field path X appended, or, when it had no `fields` directive, it *)
(* has gained one that is allFields followed by X, every other directive    *)
(* being preserved.                                                         *)
C11_ThroughFieldsAddedToQuery ==
    op.name = "addRelatedThroughFields" =>
        /\ ~op.threw
        /\ LET given == DirectivesOf(op.given.query)
               after == DirectivesOf(userCriteria.query)
               X == QueryThroughFields(given)
           IN  IF X = <<>> THEN after = given
               ELSE IF HasFields(given)
               THEN after = [i \in DOMAIN given |->
                                IF given[i].k = "fields"
                                THEN Frag("fields", given[i].v \o X)
                                ELSE given[i]]
               ELSE /\ SelectSeq(after, LAMBDA f : f.k # "fields") = given
                    /\ SelectSeq(after, LAMBDA f : f.k = "fields")
                       = <<Frag("fields", op.allFields \o X)>>

\* the directive calls that append a fragment
FragmentCalls ==
    SelectSeq(directives, LAMBDA d : d.name \notin {"orderBy", "asc", "desc"})

OrderByCalls == SelectSeq(directives, LAMBDA d : d.name = "orderBy")

ModifierCalls == SelectSeq(directives, LAMBDA d : d.name \in {"asc", "desc"})

\* the sort fragment of the last orderBy and the last asc / desc
ExpectedSort ==
    IF OrderByCalls = <<>> THEN <<>>
    ELSE <<Frag("sort",
             <<(IF ModifierCalls # <<>>
                   /\ ModifierCalls[Len(ModifierCalls)].name = "desc"
                THEN "-" ELSE "")
               \o OrderByCalls[Len(OrderByCalls)].frag.v[1]>>)>>

(* C12: toQueryString() returns the fragments of the directive calls in     *)
(* call order, each after an `&`, followed by the one fragment              *)
(* sort=[-]field of the last orderBy and the last asc / desc if orderBy was *)
(* called; it leaves the Query as it was, and a second call returns the     *)
(* same string.                                                             *)
C12_ToQueryStringOrdersFragments ==
    op.name = "toQueryString" =>
        /\ \A i \in DOMAIN op.values :
              op.values[i]
              = <<EmptyFrag>>
                \o [j \in DOMAIN FragmentCalls |-> FragmentCalls[j].frag]
                \o ExpectedSort
        /\ userCriteria = op.given

\* orderBy('title').desc().count() rendered twice as &count=true&sort=-title
C12_Witness ==
    /\ op.name = "toQueryString"
    /\ Len(op.values) = 2
    /\ Len(directives) = 3
    /\ directives[1].name = "orderBy" /\ directives[2].name = "desc"
    /\ directives[3].name = "count"
    /\ op.values[2] = <<EmptyFrag, Frag("count", <<"true">>), Frag("sort", <<"-title">>)>>

(* C13: page(n) appends the fragment page=n to the query, in call order,    *)
(* and returns the Query.                                                   *)
C13_PageAppendsFragment ==
    op.name = "page" =>
        /\ ~op.threw
        /\ userCriteria.query[Len(userCriteria.query)] = Frag("page", <<op.n>>)

----------------------------------------------------------------------------
(* nextPage() and previousPage() of an Entity Set                           *)

\* the link to page i that the service puts in meta.prev
PrevLink(i) ==
    [path |-> "http://localhost/metadata/contents",
     query |-> <<Frag("page", <<PageName(i)>>), Frag("owner", <<"test">>)>>]

\* page i of a listing of P pages, with its meta.next and meta.prev
LinkedPage(i, P, size, choice) ==
    LET page == Page(i, P, size, choice)
    IN  IF i > 1
        THEN [page EXCEPT !.meta = @ @@ ("prev" :> PrevLink(i - 1))]
        ELSE page

PagedListings ==
    UNION { { [i \in 1..P |-> LinkedPage(i, P, size[i], choice[i])] :
              size \in [1..P -> {1, MaxPerPage}],
              choice \in [1..P -> {"none", "first"}] } :
            P \in 1..MaxPages }

\* the set is a page of a listing that browse() delivered earlier
PagingInit ==
    /\ NoClient
    /\ resourceful = Descriptor(0)
    /\ pages \in PagedListings
    /\ \E i \in DOMAIN pages : set = NewCollection(pages[i], NoCriteria)
    /\ op = [name |-> "none"]
    /\ exploded = <<>>
    /\ calls = <<>>
    /\ promise = NoPromise
    /\ userCriteria = NoCriteria
    /\ acc = <<>>
    /\ result = <<>>
    /\ directives = <<>>
    /\ entity = <<>>

\* ResourceCollection.fetch(link)
Fetch(link) ==
    IF set.bound
    THEN /\ calls' = <<[request |-> BrowseRequest(FetchCriteria(link)),
                         criteria |-> FetchCriteria(link), state |-> "pending"]>>
         /\ promise' = PendingPromise
    ELSE /\ calls' = calls
         /\ promise' = RejectedPromise(NoCollectionEndpointError)

\* set.nextPage()
NextPageCall ==
    /\ op.name = "none"
    /\ op' = [name |-> "nextPage"]
    /\ IF HasNext(set.rawData)
       THEN Fetch(set.rawData.meta.next)
       ELSE /\ promise' = RejectedPromise(NoNextPageError)
            /\ calls' = calls
    /\ UNCHANGED clientVars
    /\ UNCHANGED <<resourceful, set, exploded, pagingVars, entityVars>>

\* set.previousPage()
PreviousPageCall ==
    /\ op.name = "none"
    /\ op' = [name |-> "previousPage"]
    /\ IF HasPrev(set.rawData)
       THEN Fetch(set.rawData.meta.prev)
       ELSE /\ promise' = RejectedPromise(NoPreviousPageError)
            /\ calls' = calls
    /\ UNCHANGED clientVars
    /\ UNCHANGED <<resourceful, set, exploded, pagingVars, entityVars>>

\* the transport resolves the GET of fetch(): the `then` callback replaces
\* rawData and collection of the set and returns the new Entity Set
FetchArrives ==
    /\ op.name \in {"nextPage", "previousPage"}
    /\ calls # <<>> /\ calls[1].state = "pending"
    /\ LET newResource == NewCollection(pages[PageOf(calls[1].request)],
                                        calls[1].criteria)
       IN  /\ set' = [set EXCEPT !.rawData = newResource.rawData,
                                 !.collection = newResource.collection]
           /\ result' = <<newResource>>
    /\ calls' = [calls EXCEPT ![1].state = "ok"]
    /\ promise' = ResolvedPromise
    /\ UNCHANGED clientVars
    /\ UNCHANGED <<resourceful, op, exploded, userCriteria, pages, acc, entityVars>>

\* the transport rejects the GET of fetch()
FetchFails ==
    /\ op.name \in {"nextPage", "previousPage"}
    /\ calls # <<>> /\ calls[1].state = "pending"
    /\ calls' = [calls EXCEPT ![1].state = "failed"]
    /\ promise' = RejectedPromise(TransportError(1))
    /\ UNCHANGED clientVars
    /\ UNCHANGED <<resourceful, set, op, exploded, pagingVars, entityVars>>

PagingNext == NextPageCall \/ PreviousPageCall \/ FetchArrives \/ FetchFails

SpecPaging == PagingInit /\ [][PagingNext]_vars

\* the query of the one browse that a paging step must issue for `link`:
\* the endpoint's owner, then the link's parameters without its owner
ContinuationQuery(link) ==
    <<Frag("owner", <<resourceful.tenant>>)>>
    \o SelectSeq(link.query, LAMBDA f : f.k # "owner")

\* the step for a link that is absent (signal) or present (link)
PagingStep(present, link, signal) ==
    /\ set' = set
    /\ IF present
       THEN /\ promise' = PendingPromise
            /\ Len(calls') = 1
            /\ calls'[1].state = "pending"
            /\ calls'[1].request.method = "GET"
            /\ calls'[1].request.url.ref = <<>>
            /\ SelectSeq(calls'[1].request.url.query, LAMBDA f : f # EmptyFrag)
               = ContinuationQuery(link)
       ELSE /\ promise' = RejectedPromise(signal)
            /\ calls' = <<>>

\* the page that a link points to
LinkedTo(link) ==
    pages[CHOOSE n \in DOMAIN pages :
            <<PageName(n)>> = link.query[FindFrag(link.query, "page")].v]

(* C14: nextPage() (previousPage()) of a set without meta.next (meta.prev)  *)
(* rejects with 'No next page' ('No previous page'), issues no request and  *)
(* leaves the set as it is; with the link it issues exactly one browse for  *)
(* the link's parameters without path and owner, and when the browse        *)
(* succeeds the set's rawData and collection are those of the fetched page  *)
(* and the promise resolves with the fetched Entity Set.                    *)
C14_PagingStepFollowsLink ==
    [][ /\ (op.name = "none" /\ op'.name = "nextPage") =>
              PagingStep(HasNext(set.rawData),
                         IF HasNext(set.rawData) THEN set.rawData.meta.next
                         ELSE PrevLink(1), NoNextPageError)
        /\ (op.name = "none" /\ op'.name = "previousPage") =>
              PagingStep(HasPrev(set.rawData),
                         IF HasPrev(set.rawData) THEN set.rawData.meta.prev
                         ELSE PrevLink(1), NoPreviousPageError)
        /\ (calls # <<>> /\ calls' # <<>> /\ calls[1].state = "pending"
              /\ calls'[1].state = "ok") =>
              LET link == IF op.name = "nextPage" THEN set.rawData.meta.next
                          ELSE set.rawData.meta.prev
              IN  /\ set'.rawData = LinkedTo(link)
                  /\ set'.collection
                     = NewCollection(LinkedTo(link), NoCriteria).collection
                  /\ promise' = ResolvedPromise
                  /\ Len(result') = 1
                  /\ result'[1].rawData = set'.rawData
                  /\ result'[1].collection = set'.collection
                  /\ result'[1].bound ]_vars

\* previousPage() of the last page of a listing delivered the page before
C14_Witness ==
    /\ op.name = "previousPage"
    /\ Len(pages) = MaxPages
    /\ promise = ResolvedPromise
    /\ calls # <<>> /\ calls[1].state = "ok"
    /\ result # <<>> /\ result[1].rawData = pages[MaxPages - 1]
    /\ set.rawData = pages[MaxPages - 1]

----------------------------------------------------------------------------
(* save() of an Entity with pending indirect links                          *)

\* an Entity waiting in indirectlyLinkedResources: new or not, with or
\* without its endpoint, and with no pending links of its own
PendingLinks ==
    UNION { [1..n -> { Resource(data, bound) :
                         data \in { [ref |-> "a:1"],
                                    [ref |-> "a:1", is_new |-> TRUE] },
                         bound \in BOOLEAN }] :
            n \in 0..MaxPending }

SaveInit ==
    /\ NoClient
    /\ resourceful = Descriptor(0)
    /\ set = NewCollection(("contents" :> <<>>), "")
    /\ op = [name |-> "none"]
    /\ exploded = <<>>
    /\ calls = <<>>
    /\ promise = NoPromise
    /\ userCriteria = NoCriteria
    /\ pages = <<>>
    /\ acc = <<>>
    /\ result = <<>>
    /\ directives = <<>>
    /\ \E data \in { [ref |-> "t:1"], [ref |-> "t:1", is_new |-> TRUE],
                      [ref |-> "t:1", is_new |-> FALSE] },
          links \in PendingLinks :
          entity = [Resource(data, TRUE) EXCEPT !.indirectlyLinkedResources = links]

\* link.save() of pending link i: the write of its flush(), or the
\* rejection of a link without endpoint
LinkSave(link, i) ==
    IF link.bound
    THEN [link |-> i, request |-> <<Flush(link)>>, state |-> "pending",
          error |-> <<>>]
    ELSE [link |-> i, request |-> <<>>, state |-> "failed",
          error |-> <<NoResourcefulEndpointError>>]

\* the write of this entity's own flush()
OwnWrite(r) ==
    [link |-> 0, request |-> <<Flush(r)>>, state |-> "pending", error |-> <<>>]

\* this.saveIndirectLinks(): the settlements of link.save() seen so far
SaveIndirectLinks(linkSaves) ==
    IF \E i \in DOMAIN linkSaves : linkSaves[i].state = "failed"
    THEN RejectedPromise(
            linkSaves[CHOOSE i \in DOMAIN linkSaves :
                         /\ linkSaves[i].state = "failed"
                         /\ \A j \in 1..(i - 1) : linkSaves[j].state # "failed"
                     ].error[1])
    ELSE IF \A i \in DOMAIN linkSaves : linkSaves[i].state = "ok"
    THEN ResolvedPromise
    ELSE PendingPromise

\* entity.save(), the n-th one: the save() of every pending link, or the
\* entity's own write when there is none
ResourceSave(n) ==
    /\ op' = [name |-> "Resource.save", links |-> entity.indirectlyLinkedResources,
              saves |-> n]
    /\ IF entity.bound
       THEN LET links == entity.indirectlyLinkedResources
                linkSaves == [i \in DOMAIN links |-> LinkSave(links[i], i)]
                saved == SaveIndirectLinks(linkSaves)
            IN  IF saved.state = "resolved"
                THEN /\ calls' = <<OwnWrite(entity)>>
                     /\ promise' = PendingPromise
                ELSE /\ calls' = linkSaves
                     /\ promise' = saved
       ELSE /\ calls' = <<>>
            /\ promise' = RejectedPromise(NoResourcefulEndpointError)

\* entity.save()
ResourceSaveCall ==
    /\ op.name = "none"
    /\ entity # <<>>
    /\ ResourceSave(1)
    /\ UNCHANGED clientVars
    /\ UNCHANGED <<resourceful, set, exploded, pagingVars, directives, entity>>

\* entity.save() once more, after the save() before it has settled; the
\* calls of the save() before it are kept in `acc`
ResourceSaveAgainCall ==
    /\ op.name = "Resource.save"
    /\ promise.state \in {"resolved", "rejected"}
    /\ op.saves < MaxSaves
    /\ ResourceSave(op.saves + 1)
    /\ acc' = acc \o calls
    /\ UNCHANGED clientVars
    /\ UNCHANGED <<resourceful, set, exploded, userCriteria, pages, result,
                   directives, entity>>

\* the transport settles the write of pending link i; when it was the last
\* one to resolve, the `then` callback issues the entity's own write
LinkSaveSettles(i, ok) ==
    /\ op.name = "Resource.save"
    /\ i \in DOMAIN calls
    /\ calls[i].link # 0 /\ calls[i].state = "pending"
    /\ LET settled == [calls EXCEPT
                          ![i].state = IF ok THEN "ok" ELSE "failed",
                          ![i].error = IF ok THEN <<>> ELSE <<TransportError(i)>>]
       IN  IF promise.state # "pending"
           THEN /\ calls' = settled
                /\ promise' = promise
           ELSE IF ~ok
           THEN /\ calls' = settled
                /\ promise' = RejectedPromise(TransportError(i))
           ELSE IF \A j \in DOMAIN settled : settled[j].state = "ok"
           THEN /\ calls' = Append(settled, OwnWrite(entity))
                /\ promise' = promise
           ELSE /\ calls' = settled
                /\ promise' = promise
    /\ UNCHANGED clientVars
    /\ UNCHANGED <<resourceful, set, op, exploded, pagingVars, directives, entity>>

\* a version of the settlement in which a stored entity is new no longer
OwnWriteSettlesMarksStored(ok) ==
    /\ op.name = "Resource.save"
    /\ calls # <<>>
    /\ calls[Len(calls)].link = 0 /\ calls[Len(calls)].state = "pending"
    /\ calls' = [calls EXCEPT
                    ![Len(calls)].state = IF ok THEN "ok" ELSE "failed",
                    ![Len(calls)].error =
                        IF ok THEN <<>> ELSE <<TransportError(Len(calls))>>]
    /\ promise' = IF ok THEN ResolvedPromise
                  ELSE RejectedPromise(TransportError(Len(calls)))
    /\ entity' = IF ok
                 THEN [entity EXCEPT !.indirectlyLinkedResources = <<>>,
                                     !.own = SetProp(@, "is_new", FALSE)]
                 ELSE entity
    /\ UNCHANGED clientVars
    /\ UNCHANGED <<resourceful, set, op, exploded, pagingVars, directives>>

\* the transport settles the entity's own write: clearLinks runs after a
\* success only
OwnWriteSettles(ok) ==
    /\ op.name = "Resource.save"
    /\ calls # <<>>
    /\ calls[Len(calls)].link = 0 /\ calls[Len(calls)].state = "pending"
    /\ calls' = [calls EXCEPT
                    ![Len(calls)].state = IF ok THEN "ok" ELSE "failed",
                    ![Len(calls)].error =
                        IF ok THEN <<>> ELSE <<TransportError(Len(calls))>>]
    /\ promise' = IF ok THEN ResolvedPromise
                  ELSE RejectedPromise(TransportError(Len(calls)))
    /\ entity' = IF ok THEN [entity EXCEPT !.indirectlyLinkedResources = <<>>]
                 ELSE entity
    /\ UNCHANGED clientVars
    /\ UNCHANGED <<resourceful, set, op, exploded, pagingVars, directives>>

SaveNext ==
    \/ ResourceSaveCall
    \/ ResourceSaveAgainCall
    \/ \E i \in 1..MaxPending, ok \in BOOLEAN : LinkSaveSettles(i, ok)
    \/ \E ok \in BOOLEAN : OwnWriteSettles(ok)

SpecSave == SaveInit /\ [][SaveNext]_vars

\* the save of pending link i, and the entity's own write
LinkSaves == SelectSeq(calls, LAMBDA c : c.link # 0)

OwnWrites == SelectSeq(calls, LAMBDA c : c.link = 0)

(* C16: save() of a bound Entity invokes save() on every pending link;     *)
(* the entity's own write is issued if and only if every one of them has    *)
(* resolved, and is a POST when is_new === true and a PUT otherwise; after  *)
(* the own write succeeded the pending list is empty; when a link's save    *)
(* or the own write fails, save() is rejected and the pending list is kept, *)
(* and no own write follows a failed link save.                             *)
C16_SaveWritesLinksFirst ==
    (op.name = "Resource.save" /\ entity.bound) =>
        /\ Len(LinkSaves) = Len(op.links)
        /\ \A i \in DOMAIN LinkSaves :
              /\ LinkSaves[i].link = i
              /\ op.links[i].bound =>
                    /\ Len(LinkSaves[i].request) = 1
                    /\ LinkSaves[i].request[1].method
                       = IF IsNew(op.links[i]) THEN "POST" ELSE "PUT"
        /\ Len(OwnWrites) <= 1
        /\ OwnWrites # <<>> <=> \A i \in DOMAIN LinkSaves : LinkSaves[i].state = "ok"
        /\ OwnWrites # <<>> =>
              /\ OwnWrites[1].request[1].method
                 = IF IsNew(entity) THEN "POST" ELSE "PUT"
              /\ OwnWrites[1].request[1].body = <<ToJSON(entity.own)>>
        /\ IF OwnWrites # <<>> /\ OwnWrites[1].state = "ok"
           THEN /\ entity.indirectlyLinkedResources = <<>>
                /\ promise = ResolvedPromise
           ELSE /\ entity.indirectlyLinkedResources = op.links
                /\ promise.state # "resolved"
        /\ (\E i \in DOMAIN calls : calls[i].state = "failed") =>
              promise.state = "rejected"

\* a new entity with MaxPending pending links was stored after both links
C16_Witness ==
    /\ op.name = "Resource.save"
    /\ Len(op.links) = MaxPending
    /\ IsNew(entity)
    /\ Len(calls) = MaxPending + 1
    /\ \A i \in DOMAIN calls : calls[i].state = "ok"
    /\ calls[Len(calls)].request[1].method = "POST"
    /\ entity.indirectlyLinkedResources = <<>>
    /\ promise = ResolvedPromise


\* the own writes of the save() calls so far, in call order
AllOwnWrites == SelectSeq(acc \o calls, LAMBDA c : c.link = 0)

\* the Entity was constructed with is_new === true
ConstructedNew ==
    "is_new" \in DOMAIN entity.rawData /\ entity.rawData.is_new = TRUE

\* C30: save() leaves the is_new marker and the field values of the Entity
\* as they were constructed, so that every save() of an Entity constructed
\* as new issues a store (POST), also after a save() that succeeded, and
\* every save() of any other Entity issues an update (PUT)
C30_SaveKeepsIsNew ==
    op.name = "Resource.save" =>
        /\ entity.own = entity.rawData
        /\ \A i \in DOMAIN AllOwnWrites :
               /\ AllOwnWrites[i].request[1].method
                  = IF ConstructedNew THEN "POST" ELSE "PUT"
               /\ AllOwnWrites[i].request[1].body = <<ResourceToJSON(entity)>>

\* a new Entity was stored by a first save() and stored again by a second
C30_Witness ==
    /\ op.name = "Resource.save" /\ op.saves = 2
    /\ ConstructedNew
    /\ promise = ResolvedPromise
    /\ Len(AllOwnWrites) = 2
    /\ \A i \in DOMAIN AllOwnWrites :
           /\ AllOwnWrites[i].state = "ok"
           /\ AllOwnWrites[i].request[1].method = "POST"

----------------------------------------------------------------------------
(* An Entity of a descriptor with validation rules: field assignments,      *)
(* link(), validate(), validateField() and toJSON()                         *)

\* the fields of the descriptor: `owner` is required, `createdAt` read-only,
\* `type` has allowed values and a pattern, `duration` a pattern, `ratings`
\* is a Map with per-key allowed values
ContentFields ==
    [ref |-> [default |-> Undef],
     owner |-> [default |-> Undef, required |-> TRUE],
     active |-> [default |-> "true"],
     type |-> [default |-> Undef,
               allowedValueMappings |-> [Clip |-> "clip", Movie |-> "movie"],
               typeInfo |-> [pattern |-> "typePattern"]],
     duration |-> [default |-> Undef, typeInfo |-> [pattern |-> "durationPattern"]],
     createdAt |-> [default |-> Undef, readOnly |-> TRUE,
                    typeInfo |-> [pattern |-> "durationPattern"]],
     ratings |-> [default |-> Undef,
                  typeInfo |-> [keys |-> [pattern |-> "keysPattern"],
                                values |-> [BBFC |-> [values |-> <<"15", "18">>]]]],
     parentRef |-> [default |-> Undef],
     categoryRefs |-> [default |-> <<>>]]

ContentRelationships ==
    [parent |-> [type |-> "direct", resourceType |-> "contents",
                 fieldNamePath |-> "parentRef"],
     members |-> [type |-> "direct", resourceType |-> "contents",
                  fieldNamePath |-> "memberRefs"],
     playlists |-> [type |-> "indirect", resourceType |-> "playlists",
                    fieldNamePath |-> "playlistRefs"],
     categories |-> [type |-> "direct", resourceType |-> "categories",
                     fieldNamePath |-> "categoryRefs"],
     assets |-> [type |-> "indirect", resourceType |-> "assets",
                 fieldNamePath |-> "assetRefs"]]

ContentsDescriptor ==
    [Descriptor(0) EXCEPT !.fields = ContentFields,
                          !.relationships = ContentRelationships]

\* the Resources that the Entity is linked with, each with the plural name
\* and the relationships of its own endpoint
LinkTargets ==
    { [resource |-> Resource([ref |-> "t:2"], TRUE),
       endpoint |-> [pluralName |-> "contents",
                     relationships |-> ContentRelationships]],
      [resource |-> Resource([ref |-> "c:1"], TRUE),
       endpoint |-> [pluralName |-> "categories", relationships |-> <<>>]],
      [resource |-> Resource([ref |-> "c:2"], TRUE),
       endpoint |-> [pluralName |-> "categories", relationships |-> <<>>]],
      [resource |-> Resource([ref |-> "a:1"], TRUE),
       endpoint |-> [pluralName |-> "assets",
                     relationships |->
                         [contents |-> [type |-> "direct",
                                        resourceType |-> "contents",
                                        fieldNamePath |-> "contentRef"]]]],
      [resource |-> Resource([ref |-> "u:1"], TRUE),
       endpoint |-> [pluralName |-> "customers", relationships |-> <<>>]] }

\* the values of a Map field: the sequence of its entries
RatingsValues ==
    { <<[key |-> "BBFC", value |-> "15"]>>,
      <<[key |-> "bbfc", value |-> "15"], [key |-> "BBFC", value |-> "1"]>>,
      <<[key |-> "TEST", value |-> "15"]>> }

\* the raw data that the Entity is constructed with
ContentData ==
    { [ref |-> "t:1", duration |-> duration, type |-> type] @@ owner @@ ratings :
        duration \in {"PT75M", "test"},
        type \in {"movie", "test"},
        owner \in {<<>>, [owner |-> "test"], [owner |-> Null]},
        ratings \in {<<>>} \cup { [ratings |-> m] : m \in RatingsValues } }

\* the assignments `entity[name] = value` of a scalar
Assignments ==
    { <<"owner", Undef>>, <<"owner", "test">>, <<"createdAt", "test">>,
      <<"duration", "PT75M">>, <<"type", "clip">>, <<"title", "x">> }

ResourceInit ==
    /\ NoClient
    /\ resourceful = ContentsDescriptor
    /\ set = NewCollection(("contents" :> <<>>), "")
    /\ op = [name |-> "none", assigned |-> 0, validated |-> 0]
    /\ exploded = <<>>
    /\ calls = <<>>
    /\ promise = NoPromise
    /\ userCriteria = NoCriteria
    /\ pages = <<>>
    /\ acc = <<>>
    /\ result = <<>>
    /\ directives = <<>>
    /\ \E data \in ContentData, bound \in BOOLEAN : entity = Resource(data, bound)

\* no terminal call was made on the Entity yet
InUse == op.name \in {"none", "assign", "link", "validate"}

\* entity[name] = value
AssignField(name, value) ==
    /\ InUse /\ op.assigned < MaxAssignments
    /\ op' = [name |-> "assign", assigned |-> op.assigned + 1,
              validated |-> op.validated]
    /\ entity' = [entity EXCEPT !.own = SetProp(@, name, value)]
    /\ UNCHANGED clientVars
    /\ UNCHANGED <<resourceful, set, exploded, calls, promise, pagingVars,
                   directives>>

\* entity.link(resource, as) for one Resource (a sequence of one target) or
\* an iterable of Resources
LinkCall(targets, as) ==
    /\ InUse /\ op.assigned < MaxAssignments
    /\ LET linked == Link(entity, targets, as)
       IN  /\ op' = [name |-> "link", assigned |-> op.assigned + 1,
                     validated |-> op.validated, threw |-> linked.threw,
                     error |-> linked.error, targets |-> targets, as |-> as]
           /\ entity' = linked.resource
           /\ resourceful' = [resourceful EXCEPT
                                 !.relationships = linked.relationships]
    /\ UNCHANGED clientVars
    /\ UNCHANGED <<set, exploded, calls, promise, pagingVars, directives>>

\* entity.validate()
ValidateCall ==
    /\ InUse /\ op.validated < MaxValidations
    /\ LET validated == Validate(entity)
       IN  /\ op' = [name |-> "validate", assigned |-> op.assigned,
                     validated |-> op.validated + 1, threw |-> validated.threw]
           /\ entity' = validated.resource
           /\ promise' = validated.promise
           /\ result' = validated.value
    /\ UNCHANGED clientVars
    /\ UNCHANGED <<resourceful, set, exploded, calls, userCriteria, pages, acc,
                   directives>>

\* entity.validateField(field)
ValidateFieldCall(field) ==
    /\ InUse
    /\ op' = [name |-> "validateField", assigned |-> op.assigned,
              validated |-> op.validated, field |-> field,
              validation |-> ValidateField(entity, field)]
    /\ UNCHANGED clientVars
    /\ UNCHANGED <<resourceful, set, exploded, calls, promise, pagingVars,
                   entityVars>>

\* entity.toJSON()
ToJSONCall ==
    /\ InUse
    /\ op' = [name |-> "toJSON", assigned |-> op.assigned,
              validated |-> op.validated, json |-> ResourceToJSON(entity)]
    /\ UNCHANGED clientVars
    /\ UNCHANGED <<resourceful, set, exploded, calls, promise, pagingVars,
                   entityVars>>

ResourceNext ==
    \/ \E assignment \in Assignments : AssignField(assignment[1], assignment[2])
    \/ \E m \in RatingsValues : AssignField("ratings", m)
    \/ \E target \in LinkTargets : LinkCall(<<target>>, Undef)
    \/ ValidateCall
    \/ \E field \in (DOMAIN ContentFields) \cup {"nonexistent"} :
          ValidateFieldCall(field)
    \/ ToJSONCall

SpecResource == ResourceInit /\ [][ResourceNext]_vars

\* an entry of a Map value that breaks the rule of its field: its key fails
\* the keys pattern, or its value is not among the values declared for the key
Offending(typeInfo, entry) ==
    \/ entry.key \notin Matches[typeInfo.keys.pattern]
    \/ /\ "values" \in DOMAIN typeInfo
       /\ entry.key \in DOMAIN typeInfo.values
       /\ \A i \in DOMAIN typeInfo.values[entry.key].values :
             typeInfo.values[entry.key].values[i] # entry.value

\* the code of the first rule that applies to `field`, rule after rule
FirstRule(field) ==
    LET rule == resourceful.fields[field]
        declares(k) == k \in DOMAIN rule
        value == entity.own[field]
    IN  IF field \notin DOMAIN resourceful.fields THEN NO_FIELD
        ELSE IF IsUnset(entity, field, rule)
        THEN IF declares("required") /\ rule.required THEN REQUIRED_FIELD ELSE NONE
        ELSE IF declares("readOnly") /\ rule.readOnly THEN NONE
        ELSE IF /\ declares("allowedValueMappings")
                /\ \A k \in DOMAIN rule.allowedValueMappings :
                      rule.allowedValueMappings[k] # value
        THEN NOT_ALLOWED
        ELSE IF /\ declares("typeInfo") /\ "pattern" \in DOMAIN rule.typeInfo
                /\ value \notin Matches[rule.typeInfo.pattern]
        THEN INVALID_VALUE
        ELSE IF /\ declares("typeInfo") /\ "keys" \in DOMAIN rule.typeInfo
                /\ \E i \in DOMAIN value : Offending(rule.typeInfo, value[i])
        THEN INVALID_MAP
        ELSE NONE

(* C17: validateField(name) of a bound Entity returns the code of the first *)
(* rule that applies: absent field NO_FIELD; unset value REQUIRED_FIELD if  *)
(* required, else NONE; readOnly NONE; value not among the allowed values   *)
(* NOT_ALLOWED; value failing the pattern INVALID_VALUE, also when it is    *)
(* among declared allowed values; offending Map entries INVALID_MAP with    *)
(* one message part per offending key; otherwise NONE; and `valid` is true  *)
(* exactly when the code is NONE.                                           *)
C17_ValidateFieldFirstRule ==
    (op.name = "validateField" /\ entity.bound) =>
        /\ ~op.validation.threw
        /\ op.validation.code = FirstRule(op.field)
        /\ op.validation.valid <=> (op.validation.code = NONE)
        /\ op.validation.code = INVALID_MAP =>
              Len(op.validation.message)
              = Len(SelectSeq(entity.own[op.field],
                      LAMBDA entry :
                         Offending(resourceful.fields[op.field].typeInfo, entry)))

\* the validateField results of the descriptor fields that are invalid for
\* the entity's current values, in the order of the descriptor
InvalidFields ==
    LET names == ObjectKeys(resourceful.fields)
    IN  SelectSeq([i \in DOMAIN names |-> ValidateField(entity, names[i])],
                  LAMBDA validation : ~validation.valid)

\* the rejection value is the Resource or holds it in a property
Carries(value, r) ==
    \/ value = r
    \/ \E k \in (DOMAIN value) \ {"name", "message"} : value[k] = r

\* validate() left `errors` as the claim says and settled accordingly
ValidateSettled ==
    /\ ~op.threw
    /\ entity.errors = InvalidFields
    /\ promise.state = IF entity.errors = <<>> THEN "resolved" ELSE "rejected"
    /\ promise.state = "resolved" => result = <<entity>>

(* C18: validate() of a bound Entity replaces `errors` with exactly the     *)
(* validateField results of the descriptor fields that are invalid for the  *)
(* current values; it resolves with the Entity itself if and only if        *)
(* `errors` is empty, and otherwise rejects with a value that carries the   *)
(* Entity itself.                                                           *)
C18_ValidateRejectsWithEntity ==
    (op.name = "validate" /\ entity.bound) =>
        /\ ValidateSettled
        /\ promise.state = "rejected" => Carries(promise.error[1], entity)

(* C19: toJSON() of a descriptor-bound Entity, after any field assignments, *)
(* link() and validate() calls, has exactly the descriptor's field names as *)
(* keys (none of is_new, linked, errors, rawData,                           *)
(* indirectlyLinkedResources), each with the entity's current value or,     *)
(* when the entity has no such property, the declared default; toJSON() of  *)
(* an unbound Entity is the raw data it was constructed with.               *)
C19_ToJSONHasDescriptorKeys ==
    op.name = "toJSON" =>
        IF entity.bound
        THEN /\ DOMAIN op.json = DOMAIN resourceful.fields
             /\ \A key \in DOMAIN resourceful.fields :
                   IF key \in DOMAIN entity.own
                   THEN op.json[key] = entity.own[key]
                   ELSE op.json[key] = resourceful.fields[key].default
        ELSE op.json = entity.rawData

\* toJSON() of an entity with a pending link, validation errors and an
\* undeclared property: the default of `active` and the declared keys only
C19_Witness ==
    /\ op.name = "toJSON"
    /\ entity.bound
    /\ entity.errors # <<>>
    /\ entity.indirectlyLinkedResources # <<>>
    /\ "active" \notin DOMAIN entity.own
    /\ op.json.active = "true"
    /\ op.json.categoryRefs = <<>>


\* C25: no operation on an Entity modifies the descriptor that the endpoint
\* holds: after any sequence of assignments, link(), validate(),
\* validateField() and toJSON() calls every field and relationship entry is
\* what it was at construction
C25_DescriptorNeverModified == resourceful = ContentsDescriptor

----------------------------------------------------------------------------
(* newResource(data) of the Collection Endpoint                             *)

\* the data objects passed to newResource: each property given or not
DataObjects ==
    { owner @@ name @@ ref @@ isNew @@ title :
        owner \in {<<>>, [owner |-> "acme"], [owner |-> ""]},
        name \in {<<>>, [name |-> "x"]},
        ref \in {<<>>, [ref |-> "some:ref"], [ref |-> Undef], [ref |-> Null]},
        isNew \in {<<>>, [is_new |-> TRUE], [is_new |-> FALSE]},
        title \in {<<>>, [title |-> "T"]} }

\* an endpoint with a tenancy, or one whose descriptor names none
NewResourceInit ==
    /\ NoClient
    /\ resourceful \in { Descriptor(0), [Descriptor(0) EXCEPT !.tenant = Undef] }
    /\ set = NewCollection(("contents" :> <<>>), "")
    /\ op = [name |-> "none"]
    /\ exploded = <<>>
    /\ calls = <<>>
    /\ promise = NoPromise
    /\ userCriteria = NoCriteria
    /\ pages = <<>>
    /\ acc = <<>>
    /\ result = <<>>
    /\ directives = <<>>
    /\ entity = <<>>

\* endpoint.newResource(data)
NewResourceCall(data) ==
    /\ op.name = "none"
    /\ op' = [name |-> "newResource", data |-> data]
    /\ entity' = NewResource(data)
    /\ UNCHANGED clientVars
    /\ UNCHANGED <<resourceful, set, exploded, calls, promise, pagingVars,
                   directives>>

NewResourceNext == \E data \in DataObjects : NewResourceCall(data)

SpecNewResource == NewResourceInit /\ [][NewResourceNext]_vars

\* the owner that the claim gives the new Entity
ExpectedOwner ==
    IF Truthy(Get(op.data, "owner")) THEN op.data.owner ELSE resourceful.tenant

\* owner and ref of the new Entity are as the claim says
OwnerAndRefDerived ==
    /\ entity.bound
    /\ Get(entity.own, "owner") = ExpectedOwner
    /\ Get(entity.own, "ref")
       = IF Get(op.data, "ref") # Undef THEN op.data.ref
         ELSE IF Truthy(ExpectedOwner) /\ Truthy(Get(op.data, "name"))
         THEN ExpectedOwner \o ":" \o op.data.name
         ELSE Undef

(* C20: newResource(data) returns an Entity bound to the endpoint with      *)
(* is_new === true, whose owner is data.owner when provided and the         *)
(* endpoint's tenancy otherwise, and whose ref is data.ref when provided,   *)
(* else <owner>:<name> when both are present, else undefined.               *)
C20_NewResourceIsNew ==
    op.name = "newResource" =>
        /\ OwnerAndRefDerived
        /\ "is_new" \in DOMAIN entity.own
        /\ entity.own.is_new = TRUE

----------------------------------------------------------------------------
(* Operations on an Entity and an Entity Set that have no endpoint          *)

\* an Entity and an Entity Set constructed without resourcefulEndpoint
BindingInit ==
    /\ NoClient
    /\ resourceful = ContentsDescriptor
    /\ \E size \in {1, MaxPerPage}, choice \in {"none", "first"} :
          set = UnboundCollection(LinkedPage(2, 3, size, choice), NoCriteria)
    /\ op = [name |-> "none", assigned |-> 0, validated |-> 0]
    /\ exploded = <<>>
    /\ calls = <<>>
    /\ promise = NoPromise
    /\ userCriteria = NoCriteria
    /\ pages = <<>>
    /\ acc = <<>>
    /\ result = <<>>
    /\ directives = <<>>
    /\ \E data \in ContentData : entity = Resource(data, FALSE)

\* entity.destroy()
ResourceDestroyCall ==
    /\ op.name = "none"
    /\ entity # <<>>
    /\ op' = [name |-> "Resource.destroy"]
    /\ IF entity.bound
       THEN /\ calls' = <<[request |-> DestroyRequest(RefOf(entity)),
                           state |-> "pending"]>>
            /\ promise' = PendingPromise
       ELSE /\ calls' = calls
            /\ promise' = RejectedPromise(NoResourcefulEndpointError)
    /\ UNCHANGED clientVars
    /\ UNCHANGED <<resourceful, set, exploded, pagingVars, entityVars>>

\* set.fetch(link)
FetchCall(link) ==
    /\ op.name = "none"
    /\ op' = [name |-> "fetch"]
    /\ Fetch(link)
    /\ UNCHANGED clientVars
    /\ UNCHANGED <<resourceful, set, exploded, pagingVars, entityVars>>

BindingNext ==
    \/ ValidateCall
    \/ ResourceSaveCall
    \/ ResourceDestroyCall
    \/ SaveCall(NoSize)
    \/ DestroyCall
    \/ \E link \in {set.rawData.meta.next, set.rawData.meta.prev} : FetchCall(link)

SpecBinding == BindingInit /\ [][BindingNext]_vars

\* the sentinel of the module that the operation belongs to
SentinelOf(name) ==
    IF name \in {"validate", "Resource.save", "Resource.destroy"}
    THEN NoResourcefulEndpointError
    ELSE NoCollectionEndpointError

(* C15: validate(), save() and destroy() of an Entity without endpoint, and *)
(* save(), destroy() and fetch() of an Entity Set without endpoint, each    *)
(* return a promise rejected with the NO_RESOURCEFUL_ENDPOINT_ERROR         *)
(* sentinel, raise no exception, issue no request and leave the object      *)
(* unchanged.                                                               *)
C15_UnboundOperationsReject ==
    [][ (~entity.bound /\ ~set.bound /\ op'.name # op.name) =>
            /\ "threw" \in DOMAIN op' => ~op'.threw
            /\ promise' = RejectedPromise(SentinelOf(op'.name))
            /\ calls' = <<>>
            /\ entity' = entity
            /\ set' = set ]_vars


----------------------------------------------------------------------------
(* Resource.link(): one Resource or an iterable, over a direct or an        *)
(* indirect relationship, inferred from the target or named with `as`       *)

\* further Resources to link: playlists, whose endpoint keeps the foreign
\* key in an array, and a second content
MoreTargets ==
    { [resource |-> Resource([ref |-> ref, contentRefs |-> contentRefs], TRUE),
       endpoint |-> [pluralName |-> "playlists",
                     relationships |->
                         [contents |-> [type |-> "direct",
                                        resourceType |-> "contents",
                                        fieldNamePath |-> "contentRefs"]]]] :
        ref \in {"p:1"}, contentRefs \in {<<"t:0">>, <<"t:1", "t:0">>} }
    \cup { [resource |-> Resource([ref |-> "t:3"], TRUE),
            endpoint |-> [pluralName |-> "contents",
                          relationships |-> ContentRelationships]] }

\* the iterables that link() is called with
TargetLists ==
    UNION { [1..n -> LinkTargets \cup MoreTargets] : n \in 1..MaxTargets }

\* the relationship names that link() is called with; "series" is no
\* relationship of the descriptor
RelationshipNames == {Undef, "members", "assets", "series"}

\* the raw data of the Entity that links
LinkData ==
    { [ref |-> "t:1"],
      [ref |-> "t:1", parentRef |-> "t:0", categoryRefs |-> <<"c:0", "c:9">>],
      [ref |-> "t:1", categoryRefs |-> <<"c:2", "c:1">>, memberRefs |-> <<"t:2">>] }

LinkInit ==
    /\ NoClient
    /\ resourceful = ContentsDescriptor
    /\ set = NewCollection(("contents" :> <<>>), "")
    /\ op = [name |-> "none", assigned |-> 0, validated |-> 0]
    /\ exploded = <<>>
    /\ calls = <<>>
    /\ promise = NoPromise
    /\ userCriteria = NoCriteria
    /\ pages = <<>>
    /\ acc = <<>>
    /\ result = <<>>
    /\ directives = <<>>
    /\ \E data \in LinkData, bound \in BOOLEAN : entity = Resource(data, bound)

\* one call of link() on the Entity as constructed
LinkNext ==
    \E targets \in TargetLists, as \in RelationshipNames :
        op.name = "none" /\ LinkCall(targets, as)

SpecLink == LinkInit /\ [][LinkNext]_vars

\* the step is a call of link()
IsLinkStep == op'.name = "link" /\ op'.assigned = op.assigned + 1

\* the relationship of the descriptor, as constructed, that link() uses for
\* the target: named by `as`, else the first one of the target's plural name
LinkedOver(target, as) ==
    GetRelationshipFor(TRUE, ContentRelationships, as,
                       [bound |-> TRUE, pluralName |-> target.endpoint.pluralName])

\* every target is linked over a relationship of this type
AllOver(type, targets, as) ==
    \A i \in DOMAIN targets :
        /\ LinkedOver(targets[i], as).error = NoError
        /\ ContentRelationships[LinkedOver(targets[i], as).key].type = type

\* the refs of the targets that are linked over the field, in call order
RefsFor(field, targets, as) ==
    LET over == SelectSeq(targets, LAMBDA target :
                    ContentRelationships[LinkedOver(target, as).key].fieldNamePath
                        = field)
    IN  [i \in DOMAIN over |-> over[i].resource.own.ref]

\* the first position of the value in the sequence
FirstAt(seq, value) == CHOOSE i \in DOMAIN seq :
                           seq[i] = value /\ \A j \in 1..(i - 1) : seq[j] # value

\* the array afterwards is the one before, followed by the refs it did not
\* hold, once each and in call order
AppendedOnce(old, new, refs) ==
    /\ Len(new) >= Len(old) /\ SubSeq(new, 1, Len(old)) = old
    /\ Range(new) = Range(old) \cup Range(refs)
    /\ \A ref \in Range(refs) : Cardinality({ j \in DOMAIN new : new[j] = ref }) = 1
    /\ \A a, b \in (Len(old) + 1)..Len(new) :
           a < b => FirstAt(refs, new[a]) < FirstAt(refs, new[b])

\* C21: link() over direct relationships only writes this Entity: a ...Refs
\* field keeps its refs in order and gains each target's ref once, however
\* often the target is linked; a scalar field holds the ref of the last
\* target; no other field changes and no pending indirect link is added
C21_DirectLinkStep ==
    (IsLinkStep /\ entity.bound /\ AllOver("direct", op'.targets, op'.as)) =>
        /\ ~op'.threw
        /\ entity'.indirectlyLinkedResources = entity.indirectlyLinkedResources
        /\ \A field \in (DOMAIN entity.own) \cup (DOMAIN entity'.own) :
               LET refs == RefsFor(field, op'.targets, op'.as)
               IN  IF refs = <<>>
                   THEN /\ field \in DOMAIN entity.own
                        /\ field \in DOMAIN entity'.own
                        /\ entity'.own[field] = entity.own[field]
                   ELSE /\ field \in DOMAIN entity'.own
                        /\ IF EndsWithRefs(field)
                           THEN AppendedOnce(ThroughFields(entity.own, field),
                                             entity'.own[field], refs)
                           ELSE entity'.own[field] = refs[Len(refs)]

C21_DirectLinkWritesThisEntity == [][C21_DirectLinkStep]_vars

\* the same category was linked twice in one call and is held once, after
\* the two refs that the Entity had
C21_Witness ==
    /\ op.name = "link" /\ ~op.threw /\ op.as = Undef
    /\ Len(op.targets) = 2 /\ op.targets[1] = op.targets[2]
    /\ op.targets[1].resource.own.ref = "c:1"
    /\ "categoryRefs" \in DOMAIN entity.own
    /\ entity.own.categoryRefs = <<"c:0", "c:9", "c:1">>


\* the relationship of the target's own endpoint that an indirect link()
\* writes the foreign key over: named by `as`, else the first one of this
\* endpoint's plural name
BackOver(target, as) ==
    GetRelationshipFor(TRUE, target.endpoint.relationships, as,
                       [bound |-> TRUE, pluralName |-> ContentsDescriptor.pluralName])

\* link() finds no relationship for the target: none on this side, or the
\* one on this side is indirect and there is none on the target's side
NoRelationship(target, as) ==
    \/ LinkedOver(target, as).error = LookupError
    \/ /\ LinkedOver(target, as).error = NoError
       /\ ContentRelationships[LinkedOver(target, as).key].type = "indirect"
       /\ BackOver(target, as).error = LookupError

\* the target after an indirect link from the Entity with this ref: its
\* foreign key holds the ref, once, and nothing else changed
HoldsRef(before, after, as, ref) ==
    LET field == before.endpoint.relationships[BackOver(before, as).key].fieldNamePath
    IN  /\ DOMAIN after.own = (DOMAIN before.resource.own) \cup {field}
        /\ \A k \in (DOMAIN before.resource.own) \ {field} :
               after.own[k] = before.resource.own[k]
        /\ IF EndsWithRefs(field)
           THEN AppendedOnce(ThroughFields(before.resource.own, field),
                             after.own[field], <<ref>>)
           ELSE after.own[field] = ref

\* C23: link() over indirect relationships writes this Entity's ref onto the
\* foreign key of each target, by the relationship of the target's own
\* endpoint, appends the targets to the pending indirect links and leaves
\* the Entity's own fields alone; when a target has no relationship, link()
\* throws the relationship-lookup error, and in no case a request is issued
C23_IndirectLinkStep ==
    (IsLinkStep /\ entity.bound) =>
        LET targets == op'.targets
            as == op'.as
            pending == entity.indirectlyLinkedResources
            after == entity'.indirectlyLinkedResources
        IN  /\ calls' = calls /\ promise' = promise
            /\ (/\ AllOver("indirect", targets, as)
                /\ \A i \in DOMAIN targets : ~NoRelationship(targets[i], as)) =>
                   /\ ~op'.threw
                   /\ entity'.own = entity.own
                   /\ Len(after) = Len(pending) + Len(targets)
                   /\ SubSeq(after, 1, Len(pending)) = pending
                   /\ \A i \in DOMAIN targets :
                          HoldsRef(targets[i], after[Len(pending) + i], as,
                                   entity.own.ref)
            /\ (\E i \in DOMAIN targets : NoRelationship(targets[i], as)) =>
                   /\ op'.threw /\ op'.error = LookupError
                   /\ NoRelationship(targets[1], as) => entity' = entity

C23_IndirectLinkWritesTarget == [][C23_IndirectLinkStep]_vars

\* an asset and a playlist were linked in one call: both are pending, the
\* asset's contentRef and the playlist's contentRefs hold the Entity's ref
C23_Witness ==
    /\ op.name = "link" /\ ~op.threw /\ entity.bound
    /\ Len(op.targets) = 2
    /\ op.targets[1].resource.own.ref = "a:1"
    /\ op.targets[2].resource.own = [ref |-> "p:1", contentRefs |-> <<"t:0">>]
    /\ Len(entity.indirectlyLinkedResources) = 2
    /\ entity.indirectlyLinkedResources[1].own = [ref |-> "a:1", contentRef |-> "t:1"]
    /\ entity.indirectlyLinkedResources[2].own
           = [ref |-> "p:1", contentRefs |-> <<"t:0", "t:1">>]


----------------------------------------------------------------------------
(* ResourceCollection.findOrCreate(): where(), findWhere() and add() over   *)
(* the local collection                                                     *)

\* ResourceCollection.where(criteria) for an object criteria: `r[key]` of an
\* entity of the collection is its own property or undefined
Where(collection, criteria) ==
    IF "ref" \in DOMAIN criteria /\ criteria.ref # Undef
    THEN SelectSeq(collection, LAMBDA r : Get(r, "ref") = criteria.ref)
    ELSE SelectSeq(collection,
             LAMBDA r : \A key \in DOMAIN criteria : Get(r, key) = criteria[key])

\* ResourceCollection.findWhere(criteria): <<>> stands for null
FindWhere(collection, criteria) ==
    LET resources == Where(collection, criteria)
    IN  IF Len(resources) # 0 THEN <<resources[1]>> ELSE <<>>

\* ResourceCollection.add(data) of a bound Entity Set: the collection, the
\* entity returned and the candidate object afterwards
Add(rc, candidate) ==
    IF candidate.instance
    THEN [collection |-> Append(rc.collection, candidate.resource.own),
          returned |-> candidate.resource.own, candidate |-> candidate]
    ELSE [collection |-> Append(rc.collection, NewResource(candidate.data).own),
          returned |-> NewResource(candidate.data).own,
          candidate |-> [candidate EXCEPT !.data = DataAfterNewResource(@)]]

\* a version of findOrCreate that never looks into the collection
FindOrCreateAlwaysAdds(rc, candidate) == [found |-> FALSE] @@ Add(rc, candidate)

\* ResourceCollection.findOrCreate(resource) for a Resource instance or a
\* plain object
FindOrCreate(rc, candidate) ==
    LET existingResource ==
            FindWhere(rc.collection,
                      IF candidate.instance
                      THEN ResourceToJSON(candidate.resource)
                      ELSE candidate.data)
    IN  IF existingResource # <<>>
        THEN [found |-> TRUE, collection |-> rc.collection,
              returned |-> existingResource[1], candidate |-> candidate]
        ELSE [found |-> FALSE] @@ Add(rc, candidate)

\* the fields of the descriptor: `active` has a default
FindFields ==
    [ref |-> [default |-> Undef],
     title |-> [default |-> Undef],
     active |-> [default |-> "true"]]

\* the entities that the Entity Set is constructed with
FindContents ==
    { <<>>,
      <<[ref |-> "test:a", title |-> "A", active |-> "true"]>>,
      <<[title |-> "A"], [ref |-> "test:b", title |-> "B", owner |-> "test"]>> }

\* the objects that candidates are made of
CandidateData ==
    { <<>>, [title |-> "A"], [ref |-> "test:a"], [ref |-> "test:z", title |-> "A"],
      [name |-> "b", title |-> "C"], [title |-> "A", active |-> "true"],
      [title |-> "B", owner |-> "test"] }

\* the candidates: plain objects and Resources of the endpoint
Candidates ==
    { [instance |-> FALSE, data |-> data] : data \in CandidateData }
    \cup { [instance |-> TRUE, resource |-> Resource(data, TRUE)] :
             data \in CandidateData }

FindInit ==
    /\ NoClient
    /\ resourceful = [Descriptor(0) EXCEPT !.fields = FindFields]
    /\ \E contents \in FindContents :
           set = NewCollection(("contents" :> contents), "")
    /\ op = [name |-> "none", finds |-> 0]
    /\ exploded = <<>>
    /\ calls = <<>>
    /\ promise = NoPromise
    /\ userCriteria = NoCriteria
    /\ pages = <<>>
    /\ acc = <<>>
    /\ result = <<>>
    /\ directives = <<>>
    /\ entity = <<>>

\* set.findOrCreate(candidate); `again` tells that the object is the one of
\* the call before
FindOrCreateWith(candidate, again) ==
    /\ op.finds < MaxFinds
    /\ LET outcome == FindOrCreate(set, candidate)
       IN  /\ set' = [set EXCEPT !.collection = outcome.collection]
           /\ op' = [name |-> "findOrCreate", finds |-> op.finds + 1,
                     again |-> again, given |-> candidate,
                     candidate |-> outcome.candidate,
                     before |-> Len(set.collection), found |-> outcome.found,
                     returned |-> outcome.returned]
    /\ UNCHANGED clientVars
    /\ UNCHANGED <<resourceful, exploded, calls, promise, pagingVars, entityVars>>

\* set.findOrCreate(candidate) with a new object
FindOrCreateCall(candidate) == FindOrCreateWith(candidate, FALSE)

\* set.findOrCreate(candidate) with the object of the call before
FindOrCreateAgainCall ==
    /\ op.name = "findOrCreate"
    /\ FindOrCreateWith(op.candidate, TRUE)

FindNext ==
    \/ \E candidate \in Candidates : FindOrCreateCall(candidate)
    \/ FindOrCreateAgainCall

SpecFindOrCreate == FindInit /\ [][FindNext]_vars

\* the step is a call of findOrCreate
IsFindStep == op'.name = "findOrCreate" /\ op'.finds = op.finds + 1

\* the entity matches the candidate's JSON shape: by ref when the shape has
\* one, else by every key
MatchesShape(r, json) ==
    IF "ref" \in DOMAIN json /\ json.ref # Undef
    THEN Get(r, "ref") = json.ref
    ELSE \A key \in DOMAIN json : Get(r, key) = json[key]

\* the candidate's JSON shape
ShapeOf(candidate) ==
    IF candidate.instance THEN ResourceToJSON(candidate.resource)
    ELSE candidate.data

\* findOrCreate returns the first matching entity and leaves the collection
\* alone, or appends one entity and returns it
FindsOrAppendsOne ==
    IsFindStep =>
        LET json == ShapeOf(op'.given)
            matching == { i \in DOMAIN set.collection :
                            MatchesShape(set.collection[i], json) }
        IN  IF matching # {}
            THEN /\ set'.collection = set.collection
                 /\ \E i \in matching : /\ op'.returned = set.collection[i]
                                        /\ \A j \in matching : i <= j
            ELSE /\ Len(set'.collection) = Len(set.collection) + 1
                 /\ SubSeq(set'.collection, 1, Len(set.collection)) = set.collection
                 /\ op'.returned = set'.collection[Len(set'.collection)]

\* the step is the second of two consecutive calls with the same candidate:
\* the same object, or an object with the same data
IsSecondOfTwo ==
    /\ IsFindStep /\ op.name = "findOrCreate"
    /\ op'.again \/ op'.given = op.given

\* C24: findOrCreate returns an entity of the collection that matches the
\* candidate's JSON shape (by ref when it has one, else on every key) and
\* leaves the collection unchanged, or else appends one entity and returns
\* it; two consecutive calls with the same candidate grow the collection by
\* at most one and return the same entity
C24_FindOrCreateStep ==
    /\ FindsOrAppendsOne
    /\ IsSecondOfTwo =>
           /\ Len(set'.collection) <= op.before + 1
           /\ op'.returned = op.returned

C24_FindOrCreateIsIdempotent == [][C24_FindOrCreateStep]_vars

\* the first sentence of C24 alone
C24_FindsOrAppendsOne == [][FindsOrAppendsOne]_vars

\* the second call with the same plain object found the entity that the
\* first call had created
C24_Witness ==
    /\ op.name = "findOrCreate" /\ op.finds = 2 /\ op.again /\ op.found
    /\ ~op.given.instance
    /\ Len(set.collection) = op.before
    /\ op.returned = set.collection[Len(set.collection)]
    /\ "is_new" \in DOMAIN op.returned


----------------------------------------------------------------------------
(* Registry: fetch(tenant) and getServiceDescriptor(serviceName) over one   *)
(* transport, the responses arriving in any order                           *)

\* the tenancies that fetch() is called with
Tenants == {"a", "b"}

\* the service names that getServiceDescriptor() is called with
ServiceNames == {"metadata", "identity", "nothing"}

\* the `services` array that the registry returns for the tenancy
ServicesOf(tenant) ==
    IF tenant = "a"
    THEN <<[name |-> "metadata", location |-> "http://metadata", owner |-> "root"],
           [name |-> "identity", location |-> "http://identity", owner |-> "root"]>>
    ELSE <<[name |-> "metadata", location |-> "http://metadata", owner |-> "root"]>>

\* the JSON that a service returns from /descriptor/raw?owner=<tenant>: what
\* it describes depends on the tenancy asked for
DescriptorJson(serviceName, tenant) ==
    [name |-> serviceName, resourcefuls |-> [describedFor |-> tenant]]

\* new Registry(transport, registryUri, cache)
NewRegistry(cache) ==
    [tenant |-> Undef, services |-> <<>>, descriptors |-> <<>>, cache |-> cache]

\* `this.services.find(item => item.name === serviceName)`: <<>> when none
FindService(services, serviceName) ==
    LET found == SelectSeq(services, LAMBDA item : item.name = serviceName)
    IN  IF found = <<>> THEN <<>> ELSE <<found[1]>>

\* the object `descriptor` that the then-callback of getServiceDescriptor
\* builds: `tenant` is this.tenant when the callback runs
BuildDescriptor(json, service, tenant) ==
    json @@ [location |-> service.location, owner |-> service.owner,
             tenant |-> tenant]

RegistryInit ==
    /\ resourceful = <<>>
    /\ set = <<>>
    /\ op = [name |-> "none", resolved |-> 0]
    /\ exploded = <<>>
    /\ calls = <<>>
    /\ promise = NoPromise
    /\ userCriteria = NoCriteria
    /\ pages = <<>>
    /\ acc = <<>>
    /\ result = <<>>
    /\ directives = <<>>
    /\ entity = <<>>
    /\ \E cache \in BOOLEAN : registry = NewRegistry(cache)
    /\ session = <<>>
    /\ headers = <<>>
    /\ heap = <<>>

\* registry.fetch(tenant): the tenancy is stored and refreshServices() gets
\* /services/<tenant>
RegistryFetchCall(tenant) ==
    /\ Len(calls) < MaxRequests
    /\ registry' = [registry EXCEPT !.tenant = tenant]
    /\ calls' = Append(calls, [kind |-> "services", tenant |-> tenant,
                               state |-> "pending"])
    /\ op' = [op EXCEPT !.name = "fetch"]
    /\ UNCHANGED <<resourceful, set, exploded, promise, pagingVars, entityVars,
                   session, headers, heap>>

\* the transport resolves the GET of refreshServices(): the services are
\* replaced and the descriptor cache is emptied
ServicesArrive(i) ==
    /\ calls[i].kind = "services" /\ calls[i].state = "pending"
    /\ registry' = [registry EXCEPT !.services = ServicesOf(calls[i].tenant),
                                    !.descriptors = <<>>]
    /\ calls' = [calls EXCEPT ![i].state = "ok"]
    /\ op' = [name |-> "fetched", resolved |-> i]
    /\ UNCHANGED <<resourceful, set, exploded, promise, pagingVars, entityVars,
                   session, headers, heap>>

\* registry.getServiceDescriptor(serviceName): the GET of the service's
\* /descriptor/raw?owner=<this.tenant>, or a rejected promise
GetServiceDescriptorCall(serviceName) ==
    /\ Len(calls) < MaxRequests
    /\ LET service == FindService(registry.services, serviceName)
       IN  IF service # <<>>
           THEN /\ calls' = Append(calls,
                        [kind |-> "descriptor", tenant |-> registry.tenant,
                         serviceName |-> serviceName, service |-> service[1],
                         state |-> "pending"])
                /\ promise' = PendingPromise
           ELSE /\ calls' = calls
                /\ promise' = RejectedPromise([message |-> "No service exists"])
    /\ op' = [op EXCEPT !.name = "getServiceDescriptor"]
    /\ UNCHANGED <<resourceful, set, exploded, pagingVars, entityVars,
                   clientVars>>

\* the transport resolves the GET of a getServiceDescriptor() call: the
\* descriptor is built, cached when caching is on, and returned
DescriptorArrives(i) ==
    /\ calls[i].kind = "descriptor" /\ calls[i].state = "pending"
    /\ LET json == DescriptorJson(calls[i].serviceName, calls[i].tenant)
           descriptor == BuildDescriptor(json, calls[i].service, registry.tenant)
       IN  /\ registry' = IF registry.cache
                          THEN [registry EXCEPT !.descriptors =
                                   SetProp(@, calls[i].serviceName, descriptor)]
                          ELSE registry
           /\ result' = Append(result, descriptor)
    /\ calls' = [calls EXCEPT ![i].state = "ok"]
    /\ promise' = ResolvedPromise
    /\ op' = [op EXCEPT !.name = "descriptor"]
    /\ UNCHANGED <<resourceful, set, exploded, userCriteria, pages, acc,
                   entityVars, session, headers, heap>>

\* the transport rejects a pending GET
RequestFails(i) ==
    /\ calls[i].state = "pending"
    /\ calls' = [calls EXCEPT ![i].state = "failed"]
    /\ promise' = IF calls[i].kind = "descriptor"
                  THEN RejectedPromise(TransportError(i)) ELSE promise
    /\ op' = [op EXCEPT !.name = "failed"]
    /\ UNCHANGED <<resourceful, set, exploded, pagingVars, entityVars,
                   clientVars>>

RegistryNext ==
    \/ \E tenant \in Tenants : RegistryFetchCall(tenant)
    \/ \E serviceName \in ServiceNames : GetServiceDescriptorCall(serviceName)
    \/ \E i \in DOMAIN calls : ServicesArrive(i)
    \/ \E i \in DOMAIN calls : DescriptorArrives(i)
    \/ \E i \in DOMAIN calls : RequestFails(i)

SpecRegistry == RegistryInit /\ [][RegistryNext]_vars

\* the descriptors that the cache holds
Cached == { registry.descriptors[name] : name \in DOMAIN registry.descriptors }

\* the tenancies of the fetch whose response came last and of the fetch()
\* calls made after it
CurrentTenancies ==
    { calls[j].tenant : j \in { k \in DOMAIN calls :
                                  k >= op.resolved /\ calls[k].kind = "services" } }

\* every cached or returned descriptor names the tenancy that its JSON was
\* requested with
DescriptorsNameTheirTenancy ==
    \A d \in Cached \cup Range(result) : d.tenant = d.resourcefuls.describedFor

\* once a fetch() has resolved, no cached descriptor was requested for an
\* earlier tenancy
NoStaleDescriptor ==
    op.resolved # 0 =>
        \A d \in Cached : d.resourcefuls.describedFor \in CurrentTenancies

\* without caching the cache is empty
NoCacheWhenDisabled == ~registry.cache => Cached = {}

\* C26: once fetch(tenant) has resolved the cache holds no descriptor that
\* was requested for an earlier tenancy, whatever getServiceDescriptor calls
\* are in flight; every cached or returned descriptor's tenant is the
\* tenancy that its JSON was requested with; with caching disabled the
\* cache stays empty
C26_CacheFollowsTenancy ==
    /\ NoStaleDescriptor
    /\ DescriptorsNameTheirTenancy
    /\ NoCacheWhenDisabled


----------------------------------------------------------------------------
(* Session: authenticateWithToken(), the population of tenants and access,  *)
(* and destroy() (Client.logout), over the transport's default headers      *)

\* the tokens that authenticateWithToken() is called with; "" is falsy
Tokens == {"", "tok1", "tok2"}

\* the `tenants` arrays that /pauth/tenants returns
TenantsJson == { <<>>, <<[name |-> "a"]>>, <<[name |-> "a"], [name |-> "b"]>> }

\* the JSON that /pauth/access returns
AccessJson == [permissions |-> "all"]

\* the default headers of `new Transport()`
DefaultHeaders ==
    ("Content-Type" :> "application/vnd.piksel+json") @@ ("Accept" :> "application/json")

\* new Session(transport, directory, registry, identityUri)
NewSession ==
    [token |-> Null, tenants |-> <<>>, access |-> <<>>, currentTenantName |-> Null]

\* `delete obj[key]`
DeleteProp(obj, key) == [k \in (DOMAIN obj) \ {key} |-> obj[k]]

\* Session.populateTenants() / populateAccess(): the GET it issues, none
\* when the token is null
Populate(kind) ==
    IF session'.token = Null THEN <<>>
    ELSE <<[kind |-> kind, state |-> "pending"]>>

SessionInit ==
    /\ resourceful = <<>>
    /\ set = <<>>
    /\ op = [name |-> "none"]
    /\ exploded = <<>>
    /\ calls = <<>>
    /\ promise = NoPromise
    /\ userCriteria = NoCriteria
    /\ pages = <<>>
    /\ acc = <<>>
    /\ result = <<>>
    /\ directives = <<>>
    /\ entity = <<>>
    /\ registry = <<>>
    /\ session = NewSession
    /\ headers = DefaultHeaders
    /\ heap = <<>>

\* session.authenticateWithToken(token): a truthy token is stored and set as
\* the `authorization` default header, then populateTenants() runs
AuthenticateWithTokenCall(token) ==
    /\ Len(calls) < MaxRequests
    /\ session' = IF Truthy(token) THEN [session EXCEPT !.token = token]
                  ELSE session
    /\ headers' = IF Truthy(token)
                  THEN SetProp(headers, "authorization", "Bearer " \o token)
                  ELSE headers
    /\ calls' = calls \o Populate("tenants")
    /\ promise' = PendingPromise
    /\ op' = [name |-> "authenticateWithToken", token |-> token]
    /\ UNCHANGED <<resourceful, set, exploded, pagingVars, entityVars,
                   registry, heap>>

\* the transport resolves GET /pauth/tenants: the tenants are stored and
\* populateAccess() runs
TenantsArrive(i, json) ==
    /\ calls[i].kind = "tenants" /\ calls[i].state = "pending"
    /\ session' = [session EXCEPT !.tenants = json]
    /\ calls' = [calls EXCEPT ![i].state = "ok"] \o Populate("access")
    /\ op' = [name |-> "tenants"]
    /\ UNCHANGED <<resourceful, set, exploded, promise, pagingVars, entityVars,
                   registry, headers, heap>>

\* the transport resolves GET /pauth/access: the access is stored
AccessArrives(i) ==
    /\ calls[i].kind = "access" /\ calls[i].state = "pending"
    /\ session' = [session EXCEPT !.access = AccessJson]
    /\ calls' = [calls EXCEPT ![i].state = "ok"]
    /\ promise' = ResolvedPromise
    /\ op' = [name |-> "access"]
    /\ UNCHANGED <<resourceful, set, exploded, pagingVars, entityVars,
                   registry, headers, heap>>

\* `session.currentTenant = tenantName`
SetCurrentTenant(tenantName) ==
    /\ session.currentTenantName # tenantName
    /\ session' = [session EXCEPT !.currentTenantName = tenantName]
    /\ op' = [name |-> "currentTenant"]
    /\ UNCHANGED <<resourceful, set, exploded, calls, promise, pagingVars,
                   entityVars, registry, headers, heap>>

\* session.destroy(), which client.logout() returns
SessionDestroyCall ==
    /\ session' = [token |-> Null, tenants |-> <<>>, access |-> <<>>,
                   currentTenantName |-> Null]
    /\ headers' = DeleteProp(headers, "Authorization")
    /\ op' = [name |-> "destroy", authenticated |-> session.token # Null]
    /\ UNCHANGED <<resourceful, set, exploded, calls, promise, pagingVars,
                   entityVars, registry, heap>>

SessionNext ==
    \/ \E token \in Tokens : AuthenticateWithTokenCall(token)
    \/ \E i \in DOMAIN calls, json \in TenantsJson : TenantsArrive(i, json)
    \/ \E i \in DOMAIN calls : AccessArrives(i)
    \/ \E tenantName \in {"a", "b"} : SetCurrentTenant(tenantName)
    \/ SessionDestroyCall

SpecSession == SessionInit /\ [][SessionNext]_vars

\* Session.isActive() is false and nothing of the user is held
SessionInactive ==
    /\ session.token = Null
    /\ session.tenants = <<>>
    /\ session.access = <<>>
    /\ session.currentTenantName = Null

\* a default header of the transport carries a bearer token
SendsBearer ==
    \E key \in DOMAIN headers, token \in Tokens : headers[key] = "Bearer " \o token

\* when destroy() returns the session is inactive
C29_SessionCleared == op.name = "destroy" => SessionInactive

\* C29: when destroy() returns after an authenticateWithToken(token) with a
\* non-empty token, the session is inactive (no token, no tenants, no
\* access, no current tenant) and the default headers of the transport hold
\* no bearer authorization any more
C29_DestroyEndsSession ==
    (op.name = "destroy" /\ op.authenticated) =>
        /\ SessionInactive
        /\ ~SendsBearer


----------------------------------------------------------------------------
(* save() over a graph of Resources of one endpoint that link() has built   *)
(* through an indirect relationship; a Resource of the graph is held by     *)
(* identity: heap[id], its pending links being ids                          *)

\* the call depth at which the engine raises `RangeError: Maximum call
\* stack size exceeded`: deeper than any chain of distinct Resources
StackLimit == MaxEntities + 1

RangeError == [name |-> "RangeError"]

\* the descriptor: contents have contents as children, the child holding
\* the parent's ref
GraphDescriptor ==
    [Descriptor(0) EXCEPT
        !.fields = [ref |-> [default |-> Undef], parentRef |-> [default |-> Undef]],
        !.relationships = [children |-> [type |-> "indirect",
                                         resourceType |-> "contents",
                                         fieldNamePath |-> "parentRef"]]]

GraphInit ==
    /\ resourceful = GraphDescriptor
    /\ set = <<>>
    /\ op = [name |-> "none", links |-> 0]
    /\ exploded = <<>>
    /\ calls = <<>>
    /\ promise = NoPromise
    /\ userCriteria = NoCriteria
    /\ pages = <<>>
    /\ acc = <<>>
    /\ result = <<>>
    /\ directives = <<>>
    /\ entity = <<>>
    /\ registry = <<>>
    /\ session = <<>>
    /\ headers = <<>>
    /\ heap = [id \in 1..MaxEntities |-> Resource([ref |-> RefName(id)], TRUE)]

\* heap[a].link(heap[b]): both are of this endpoint, so both lookups find
\* the indirect relationship of the descriptor; b gets a's ref and is pushed
\* to a's pending links
GraphLinkCall(a, b) ==
    /\ op.name \in {"none", "link"} /\ op.links < MaxGraphLinks
    /\ LET here == [bound |-> heap[a].bound, pluralName |-> resourceful.pluralName]
           found == GetRelationshipFor(heap[a].bound, resourceful.relationships,
                                       Undef, here)
           back == GetRelationshipFor(heap[b].bound, resourceful.relationships,
                                      Undef, here)
       IN  /\ found.error = NoError /\ back.error = NoError
           /\ resourceful.relationships[found.key].type = "indirect"
           /\ heap' = [[heap EXCEPT ![b].own =
                           LinkRefToResource(heap[a].own.ref,
                                             resourceful.relationships[back.key], @)]
                       EXCEPT ![a].indirectlyLinkedResources = Append(@, b)]
           /\ resourceful' = [resourceful EXCEPT !.relationships =
                                  MarkArray(@, back.key)]
    /\ op' = [name |-> "link", links |-> op.links + 1]
    /\ UNCHANGED <<set, exploded, calls, promise, pagingVars, entityVars,
                   registry, session, headers>>

\* an invocation of save(): the Resource, the invocation whose
\* saveIndirectLinks() made it (0 for the caller's), and how far it is:
\* "waiting" for its link saves, "writing" its own flush, "ok", "failed",
\* or "thrown" when the call did not return
Invocation(id, parent) ==
    [entity |-> id, parent |-> parent, state |-> "waiting", request |-> <<>>]

RECURSIVE SaveFrom(_, _, _, _), SaveLinks(_, _, _, _, _)
\* the synchronous part of heap[id].save() at call depth `depth`, after the
\* invocations `saved`: save() calls saveIndirectLinks(), which calls save()
\* on every pending link in turn; beyond the stack limit the call throws,
\* and so does every call on the stack
SaveFrom(id, parent, depth, saved) ==
    IF depth > StackLimit THEN [saved EXCEPT !.overflow = TRUE]
    ELSE LET me == Len(saved.invocations) + 1
             entered == [saved EXCEPT !.invocations =
                                          Append(@, Invocation(id, parent))]
             after == SaveLinks(heap[id].indirectlyLinkedResources, 1, me,
                                depth, entered)
         IN  IF after.overflow
             THEN [after EXCEPT !.invocations[me].state = "thrown"]
             ELSE after

\* `this.indirectlyLinkedResources.map(link => link.save())` from link k on
SaveLinks(links, k, me, depth, saved) ==
    IF k > Len(links) \/ saved.overflow THEN saved
    ELSE SaveLinks(links, k + 1, me, depth,
                   SaveFrom(links[k], me, depth + 1, saved))

\* the invocations that saveIndirectLinks() of invocation i made
LinksOf(invocations, i) == { j \in DOMAIN invocations : invocations[j].parent = i }

\* `.then(() => this.flush())`: an invocation that waits and whose link
\* saves have all resolved issues the write of its Resource
FlushReady(invocations) ==
    [i \in DOMAIN invocations |->
        IF /\ invocations[i].state = "waiting"
           /\ \A j \in LinksOf(invocations, i) : invocations[j].state = "ok"
        THEN [invocations[i] EXCEPT !.state = "writing",
                                    !.request = <<Flush(heap[invocations[i].entity])>>]
        ELSE invocations[i]]

RECURSIVE RejectUp(_, _)
\* Promise.all rejects as soon as one link save rejects: the invocations
\* that wait above invocation i fail with it
RejectUp(invocations, i) ==
    LET parent == invocations[i].parent
    IN  IF parent = 0 \/ invocations[parent].state # "waiting" THEN invocations
        ELSE RejectUp([invocations EXCEPT ![parent].state = "failed"], parent)

\* heap[a].save(): the calls run to the leaves of the pending links; the
\* flushes of the Resources without pending links are issued right after
GraphSaveCall(a) ==
    /\ op.name \in {"none", "link"}
    /\ LET saved == SaveFrom(a, 0, 1, [overflow |-> FALSE, invocations |-> <<>>])
       IN  /\ calls' = FlushReady(saved.invocations)
           /\ promise' = IF saved.overflow THEN NoPromise ELSE PendingPromise
           /\ op' = [name |-> "Graph.save", links |-> op.links, root |-> a,
                     threw |-> saved.overflow,
                     error |-> IF saved.overflow THEN <<RangeError>> ELSE <<>>,
                     pending |-> Len(Flatten([id \in DOMAIN heap |->
                                     heap[id].indirectlyLinkedResources]))]
    /\ UNCHANGED <<resourceful, set, exploded, pagingVars, entityVars, clientVars>>

\* the transport settles the write of invocation i: after a success
\* clearLinks empties the pending links of its Resource and the invocation
\* above may flush; a failure rejects the invocations above
WriteSettles(i, ok) ==
    /\ op.name = "Graph.save"
    /\ calls[i].state = "writing"
    /\ IF ok
       THEN /\ heap' = [heap EXCEPT ![calls[i].entity].indirectlyLinkedResources = <<>>]
            /\ calls' = FlushReady([calls EXCEPT ![i].state = "ok"])
            /\ promise' = IF calls[i].parent = 0 THEN ResolvedPromise ELSE promise
       ELSE /\ heap' = heap
            /\ calls' = RejectUp([calls EXCEPT ![i].state = "failed"], i)
            /\ promise' = IF calls'[1].state = "failed" /\ promise.state = "pending"
                          THEN RejectedPromise(TransportError(i)) ELSE promise
    /\ UNCHANGED <<resourceful, set, op, exploded, pagingVars, entityVars,
                   registry, session, headers>>

GraphNext ==
    \/ \E a, b \in 1..MaxEntities : GraphLinkCall(a, b)
    \/ \E a \in 1..MaxEntities : GraphSaveCall(a)
    \/ \E i \in DOMAIN calls, ok \in BOOLEAN : WriteSettles(i, ok)

SpecGraph == GraphInit /\ [][GraphNext]_vars

\* the writes that the save() has issued so far
WritesIssued == { i \in DOMAIN calls : calls[i].request # <<>> }

\* every write that was issued has settled
AllWritesSettled == \A i \in WritesIssued : calls[i].state \in {"ok", "failed"}

\* C27: a save() of a Resource of any graph that link() has built returns a
\* promise that is settled once every write it issued has settled, and it
\* issues at most one write for each pending link of the graph and one for
\* the Resource itself
C27_GraphSaveSettles ==
    op.name = "Graph.save" =>
        /\ ~op.threw
        /\ AllWritesSettled => promise.state \in {"resolved", "rejected"}
        /\ Cardinality(WritesIssued) <= op.pending + 1

\* the settling part, for the graphs in which the Resource saved reaches no
\* cycle of pending links
C27_AcyclicSaveSettles ==
    (op.name = "Graph.save" /\ ~op.threw /\ AllWritesSettled) =>
        promise.state \in {"resolved", "rejected"}

=============================================================================
